---- MODULE Spec2Model ----
(***************************************************************************)
(* The credit ledger of the API: the three-pool wallet kept on the user    *)
(* row, the append-only credit_records table, the orders table and the     *)
(* referrals table, and the handlers that read and write them.             *)
(*                                                                         *)
(* Every handler runs its statements through drizzle's db.transaction on   *)
(* postgres-js with no isolation level given (apps/api/src/db/index.ts),   *)
(* that is PostgreSQL's READ COMMITTED: a SELECT reads the latest          *)
(* committed row and takes no lock, an UPDATE waits for the row lock,      *)
(* evaluates its SET clause on the latest committed row and keeps the lock *)
(* until COMMIT or ROLLBACK, and nothing a transaction wrote is visible to *)
(* another one before its COMMIT.  One action of the model is one await    *)
(* point of a handler together with the synchronous code that follows it;  *)
(* such a synchronous block reads the clock once.                          *)
(***************************************************************************)
EXTENDS Integers, Sequences, FiniteSets, TLC

----------------------------------------------------------------------------
(* Bounds of the model *)

\* number of requests that can be in flight at the same time
NProcs == 2
\* number of requests started in one behaviour
MaxOps == 3
\* last instant of Calendar the clock reaches
MaxClock == 3

----------------------------------------------------------------------------
(* Program constants *)

DAILY_LOGIN_REWARD == 50
SUBSCRIPTION_FREE == 0
SUBSCRIPTION_STARTER == 1300
SUBSCRIPTION_PRO == 2700
SUBSCRIPTION_MAX == 30000
MIN_RESERVE_CREDITS == 5
REFERRER_REWARD == 30
REFERRED_REWARD == 30
MONTHLY_LIMIT == 300
MAX_REFERRALS_PER_IP_PER_DAY == 5
MAX_GRANT_AMOUNT == 100000
MAX_PURCHASE_CREDITS == 1000000

----------------------------------------------------------------------------
(* Inputs *)

Users == {"u1", "u2", "u3"}
\* a user id that has no row in the user table
NoUser == "nobody"
UserIds == Users \cup {NoUser}
\* the ids the wallet requests are addressed to
Targets == {"u1", NoUser}
Procs == 1..NProcs

\* a null column
Null == 0

\* The instants at which the clock is read, in increasing order: the value
\* of new Date() is an index into this sequence, and one instant is before
\* another exactly when its index is smaller.
Calendar ==
  << [y |-> 2025, m |-> 1, d |-> 31, s |-> 43200],
     [y |-> 2025, m |-> 1, d |-> 31, s |-> 86399],
     [y |-> 2025, m |-> 2, d |-> 1,  s |-> 0],
     [y |-> 2025, m |-> 2, d |-> 1,  s |-> 43200],
     [y |-> 2025, m |-> 3, d |-> 1,  s |-> 0],
     [y |-> 2026, m |-> 3, d |-> 1,  s |-> 0] >>

\* the costs consumeCredits is called with
Costs == {0, 10, 40}

\* an instant after every instant the clock reaches
FarFuture == Len(Calendar)

\* The checkout sessions Stripe reports as completed, by session id, with
\* the metadata the checkout route attached when it created them.
CheckoutSessions ==
  [ cs_1 |-> [ type |-> "credits", userId |-> "u1", packageId |-> "small",
               credits |-> 100, planId |-> "", current_period_end |-> Null ],
    cs_2 |-> [ type |-> "subscription", userId |-> "u1", packageId |-> "",
               credits |-> 0, planId |-> "starter", current_period_end |-> FarFuture ] ]

CreditSessions == {id \in DOMAIN CheckoutSessions : CheckoutSessions[id].type = "credits"}
SubscriptionSessions ==
  {id \in DOMAIN CheckoutSessions : CheckoutSessions[id].type = "subscription"}

\* the stripeCustomerId column: the user row of each Stripe customer
CustomerUser == [ cus_1 |-> "u1", cus_x |-> NoUser ]

\* the customer.subscription.created/updated events, by event id, with the
\* subscription object each carries
SubscriptionEvents ==
  [ evt_1 |-> [ customer |-> "cus_1", status |-> "active", planId |-> "pro",
                current_period_end |-> FarFuture ],
    evt_2 |-> [ customer |-> "cus_1", status |-> "past_due", planId |-> "pro",
                current_period_end |-> 2 ],
    evt_3 |-> [ customer |-> "cus_x", status |-> "active", planId |-> "pro",
                current_period_end |-> FarFuture ] ]

\* the amounts the admin route passes to grantCredits
GrantAmounts == {50}
\* the admin making a grant and the reason given
AdminIds == {"admin1"}
GrantReasons == {"goodwill"}

\* the (referred, referrer) pairs applyReferralCode is called with
ReferralPairs == { << "u1", "u1" >>, << "u1", "u2" >>, << "u2", "u1" >>, << "u2", NoUser >> }
ClientIps == {"ip1"}

Min(a, b) == IF a <= b THEN a ELSE b

----------------------------------------------------------------------------
VARIABLES
  clock,          \* the current instant, an index into Calendar
  users,          \* the user table: the wallet columns of each user row
  creditRecords,  \* the credit_records table, in insertion order
  orders,         \* the orders table
  referrals,      \* the referrals table
  lock,           \* the transaction holding each user row's lock, or Null
  proc,           \* each request in flight: its handler, position and locals
  nOps,           \* requests started so far
  lastGrant,      \* per user, the instant of the last grantDailyLoginReward call
                  \* that returned a balance, or Null
  lastEvent,      \* the id of the subscription event handled last, or ""
  nowMs,          \* Date.now() of the rate limiter, in ms since the process started
  store,          \* the rate limiter's Map: the timestamps kept for each key
  lastSweep,      \* nowMs when the cleanup timer fired last (0: when it was set)
  allowed,        \* per key, the timestamps of every call checkRateLimit allowed
  unswept,        \* the Map as it would be had the cleanup timer never fired
  lastCheck,      \* the last checkRateLimit call: its key, instant and result,
                  \* and the result the same call has on unswept
  nChecks,        \* checkRateLimit calls so far
  nElapses,       \* advances of nowMs so far
  lastRejected,   \* per key, the instant and resetMs of the last call
                  \* checkRateLimit rejected (at -1: none so far)
  helperCall,     \* the last call of a helper function on its own: the
                  \* function, its arguments, the clock and what it returned
  cache,          \* the entitlements cache: per user id, the entry kept
  ent,            \* each entitlements call in flight: its function, position
                  \* and locals
  invalidations,  \* per user, the invalidateEntitlementsCache calls returned
  nCalls          \* entitlements calls started so far

ledgerVars == << clock, users, creditRecords, orders, referrals, lock, proc, nOps, lastGrant,
                 lastEvent >>

limiterVars == << nowMs, store, lastSweep, allowed, unswept, lastCheck, nChecks, nElapses,
                  lastRejected >>

entitlementVars == << cache, ent, invalidations, nCalls >>

vars == << ledgerVars, limiterVars, helperCall, entitlementVars >>

----------------------------------------------------------------------------
(* Rows *)

\* a user row as the account is created: every pool at zero, no timestamps.
\* ver counts the committed writes of the row (the row's version).
NewUser ==
  [ dailyCredits |-> 0, dailyCreditsResetAt |-> Null,
    subscriptionCredits |-> 0, subscriptionCreditsResetAt |-> Null,
    bonusCredits |-> 0,
    subscriptionTier |-> "free", subscriptionExpiresAt |-> Null,
    referralCreditsThisMonth |-> 0, totalReferralCredits |-> 0,
    totalReferrals |-> 0, ver |-> 0 ]

\* a credit_records row; at is the instant the handler read the clock, ref
\* the session, admin or other party its metadata names and reason the
\* reason its metadata carries
CreditRecord(userId, type, amount, balanceBefore, balanceAfter, creditPool, at, ref) ==
  [ userId |-> userId, type |-> type, amount |-> amount,
    balanceBefore |-> balanceBefore, balanceAfter |-> balanceAfter,
    creditPool |-> creditPool, at |-> at, ref |-> ref, reason |-> "" ]

\* what a handler returns: the success flag, the failure code, the credits
\* consumed and the three pools of the balance it reports
Result(success, code, creditsConsumed, dailyCredits, subscriptionCredits, bonusCredits) ==
  [ success |-> success, code |-> code, creditsConsumed |-> creditsConsumed,
    dailyCredits |-> dailyCredits, subscriptionCredits |-> subscriptionCredits,
    bonusCredits |-> bonusCredits ]

NoResult == Result(FALSE, "", 0, 0, 0, 0)

NoWrites == [u \in {} |-> NewUser]

\* a request slot with no request in it
Idle ==
  [ op |-> "none", pc |-> "idle", user |-> NoUser, other |-> NoUser,
    amount |-> 0, session |-> "", ip |-> "", reason |-> "", tier |-> "",
    expiresAt |-> Null, at |-> 0, snap |-> NewUser,
    wr |-> NoWrites, recs |-> << >>, ord |-> << >>, refs |-> << >>, out |-> NoResult ]

\* no helper function has been called on its own
NoCall == [ fn |-> "none", tier |-> "", at |-> Null, now |-> Null, result |-> Null ]

----------------------------------------------------------------------------
(* Helper functions of the credits service *)

SameUTCDay(a, b) ==
  /\ Calendar[a].d = Calendar[b].d
  /\ Calendar[a].m = Calendar[b].m
  /\ Calendar[a].y = Calendar[b].y

\* (variant) the two timestamps compared, not their UTC dates
needsDailyResetByInstant(lastResetAt, now) ==
  IF lastResetAt = Null THEN TRUE ELSE now # lastResetAt

\* (variant) only the day of the month compared
needsDailyResetByDayOfMonth(lastResetAt, now) ==
  IF lastResetAt = Null THEN TRUE
  ELSE Calendar[now].d # Calendar[lastResetAt].d

needsDailyReset(lastResetAt, now) ==
  IF lastResetAt = Null THEN TRUE
  ELSE \/ Calendar[now].d # Calendar[lastResetAt].d
       \/ Calendar[now].m # Calendar[lastResetAt].m
       \/ Calendar[now].y # Calendar[lastResetAt].y

getEffectiveTier(tier, expiresAt, now) ==
  IF tier = "" \/ tier = "free" THEN "free"
  ELSE IF expiresAt # Null /\ expiresAt < now THEN "free"
  ELSE IF tier \in {"starter", "pro", "max"} THEN tier
  ELSE "free"

\* (variant) the tier's constant whether the subscription has expired or not
getSubscriptionCreditsLimitNoExpiry(tier, subscriptionExpiresAt, now) ==
  CASE tier = "max" -> SUBSCRIPTION_MAX
    [] tier = "pro" -> SUBSCRIPTION_PRO
    [] tier = "starter" -> SUBSCRIPTION_STARTER
    [] OTHER -> SUBSCRIPTION_FREE

getSubscriptionCreditsLimit(tier, subscriptionExpiresAt, now) ==
  IF (subscriptionExpiresAt # Null /\ subscriptionExpiresAt < now) \/ tier = "free"
  THEN SUBSCRIPTION_FREE
  ELSE CASE tier = "max" -> SUBSCRIPTION_MAX
         [] tier = "pro" -> SUBSCRIPTION_PRO
         [] tier = "starter" -> SUBSCRIPTION_STARTER
         [] OTHER -> SUBSCRIPTION_FREE

\* the subscriptionCreditsLimit a handler reports for the row it read at now
subscriptionLimit(userData, now) ==
  getSubscriptionCreditsLimit(
    getEffectiveTier(userData.subscriptionTier, userData.subscriptionExpiresAt, now),
    userData.subscriptionExpiresAt, now)

TotalOf(row) == row.dailyCredits + row.subscriptionCredits + row.bonusCredits

\* the daily credits a handler works with after reading the row at now
EffectiveDaily(userData, now) ==
  IF needsDailyReset(userData.dailyCreditsResetAt, now) THEN 0 ELSE userData.dailyCredits

\* (variant) the snapshot taken from the stored daily credits, expired or not
ConsumeBalanceBeforeStored(userData, now) ==
  userData.dailyCredits + userData.subscriptionCredits + userData.bonusCredits

\* the balanceBefore snapshot of consumeCredits
ConsumeBalanceBefore(userData, now) ==
  EffectiveDaily(userData, now) + userData.subscriptionCredits + userData.bonusCredits

\* (variant) the last deduction not clamped to the bonus pool
ConsumeCalcUnclamped(dailyCredits, subscriptionCredits, bonusCredits, cost) ==
  LET fromDaily == Min(cost, dailyCredits)
      remaining1 == cost - fromDaily
      fromSubscription == Min(remaining1, subscriptionCredits)
      remaining2 == remaining1 - fromSubscription
      fromBonus == remaining2
  IN [ dailyCredits |-> dailyCredits - fromDaily,
       subscriptionCredits |-> subscriptionCredits - fromSubscription,
       bonusCredits |-> bonusCredits - fromBonus,
       fromDaily |-> fromDaily, fromSubscription |-> fromSubscription,
       fromBonus |-> fromBonus, remaining |-> 0,
       actualConsumed |-> cost ]

\* (variant) the pools taken in the order bonus, subscription, daily
ConsumeCalcBonusFirst(dailyCredits, subscriptionCredits, bonusCredits, cost) ==
  LET fromBonus == Min(cost, bonusCredits)
      remaining1 == cost - fromBonus
      fromSubscription == Min(remaining1, subscriptionCredits)
      remaining2 == remaining1 - fromSubscription
      fromDaily == Min(remaining2, dailyCredits)
      remaining == remaining2 - fromDaily
  IN [ dailyCredits |-> dailyCredits - fromDaily,
       subscriptionCredits |-> subscriptionCredits - fromSubscription,
       bonusCredits |-> bonusCredits - fromBonus,
       fromDaily |-> fromDaily, fromSubscription |-> fromSubscription,
       fromBonus |-> fromBonus, remaining |-> remaining,
       actualConsumed |-> cost - remaining ]

\* (variant) nothing deducted when the pools cannot cover the cost
ConsumeCalcAllOrNothing(dailyCredits, subscriptionCredits, bonusCredits, cost) ==
  LET enough == cost <= dailyCredits + subscriptionCredits + bonusCredits
      fromDaily == IF enough THEN Min(cost, dailyCredits) ELSE 0
      remaining1 == cost - fromDaily
      fromSubscription == IF enough THEN Min(remaining1, subscriptionCredits) ELSE 0
      remaining2 == remaining1 - fromSubscription
      fromBonus == IF enough THEN Min(remaining2, bonusCredits) ELSE 0
      remaining == remaining2 - fromBonus
  IN [ dailyCredits |-> dailyCredits - fromDaily,
       subscriptionCredits |-> subscriptionCredits - fromSubscription,
       bonusCredits |-> bonusCredits - fromBonus,
       fromDaily |-> fromDaily, fromSubscription |-> fromSubscription,
       fromBonus |-> fromBonus, remaining |-> remaining,
       actualConsumed |-> cost - remaining ]

\* the three deductions of consumeCredits, in priority order
ConsumeCalc(dailyCredits, subscriptionCredits, bonusCredits, cost) ==
  LET fromDaily == Min(cost, dailyCredits)
      remaining1 == cost - fromDaily
      fromSubscription == Min(remaining1, subscriptionCredits)
      remaining2 == remaining1 - fromSubscription
      fromBonus == Min(remaining2, bonusCredits)
      remaining == remaining2 - fromBonus
  IN [ dailyCredits |-> dailyCredits - fromDaily,
       subscriptionCredits |-> subscriptionCredits - fromSubscription,
       bonusCredits |-> bonusCredits - fromBonus,
       fromDaily |-> fromDaily, fromSubscription |-> fromSubscription,
       fromBonus |-> fromBonus, remaining |-> remaining,
       actualConsumed |-> cost - remaining ]

----------------------------------------------------------------------------
(* Transactions *)

\* the handlers that run inside db.transaction
Transactional ==
  { "consumeCredits", "getUserCreditsBalance", "grantDailyLoginReward",
    "handleCreditPurchase", "handleSubscriptionCheckoutCompleted",
    "grantCredits", "applyReferralCode", "checkCreditsReserve" }

\* a slot is free before its first request and once its handler has returned;
\* it keeps what the handler returned until the next request takes it
Free(p) == proc[p].pc \in {"idle", "done"}

\* A request takes the lowest free slot (the slots are interchangeable).
CanStart(p) ==
  /\ Free(p)
  /\ nOps < MaxOps
  /\ \A q \in Procs : q < p => ~Free(q)

\* An UPDATE of row u by p waits while another transaction holds the row.
CanWrite(p, u) == lock[u] \in {Null, p}

\* the handler of slot p returned out without starting a transaction's writes
Returned(op, u, out) ==
  [Idle EXCEPT !.op = op, !.pc = "done", !.user = u, !.out = out]

\* the row p's UPDATE starts from: its own pending write, or the committed row
CurrentRow(p, u) == IF u \in DOMAIN proc[p].wr THEN proc[p].wr[u] ELSE users[u]

WithWrite(wr, u, row) == [v \in (DOMAIN wr) \cup {u} |-> IF v = u THEN row ELSE wr[v]]

\* COMMIT: the pending writes and inserts become visible, the locks are freed
TxCommit(p) ==
  /\ proc[p].pc = "commit"
  /\ users' = [u \in Users |-> IF u \in DOMAIN proc[p].wr THEN proc[p].wr[u] ELSE users[u]]
  /\ creditRecords' = creditRecords \o proc[p].recs
  /\ orders' = orders \o proc[p].ord
  /\ referrals' = referrals \o proc[p].refs
  /\ lock' = [u \in Users |-> IF lock[u] = p THEN Null ELSE lock[u]]
  /\ proc' = [proc EXCEPT ![p].pc = "done", ![p].recs = << >>, ![p].ord = << >>,
                           ![p].refs = << >>]
  /\ lastGrant' = IF proc[p].op = "grantDailyLoginReward"
                  THEN [lastGrant EXCEPT ![proc[p].user] = proc[p].at]
                  ELSE lastGrant
  /\ lastEvent' = IF proc[p].op = "handleSubscriptionCheckoutCompleted"
                  THEN proc[p].session
                  ELSE lastEvent
  /\ UNCHANGED << clock, nOps, limiterVars, helperCall, entitlementVars >>

\* (variant) the order row written outside the transaction survives its rollback
TxAbortKeepsOrder(p) ==
  /\ proc[p].pc \in {"update", "commit"}
  /\ proc[p].op \in Transactional
  /\ lock' = [u \in Users |-> IF lock[u] = p THEN Null ELSE lock[u]]
  /\ orders' = orders \o proc[p].ord
  /\ proc' = [proc EXCEPT ![p].pc = "done", ![p].wr = NoWrites, ![p].recs = << >>,
                           ![p].ord = << >>, ![p].refs = << >>,
                           ![p].out = Result(FALSE, "TX_FAILED", 0, 0, 0, 0)]
  /\ UNCHANGED << clock, users, creditRecords, referrals, nOps, lastGrant, lastEvent, limiterVars, helperCall, entitlementVars >>

\* ROLLBACK: a statement or the commit failed and the callback threw; nothing
\* the transaction wrote remains
TxAbort(p) ==
  /\ proc[p].pc \in {"update", "commit"}
  /\ proc[p].op \in Transactional
  /\ lock' = [u \in Users |-> IF lock[u] = p THEN Null ELSE lock[u]]
  /\ proc' = [proc EXCEPT ![p].pc = "done", ![p].wr = NoWrites, ![p].recs = << >>,
                           ![p].ord = << >>, ![p].refs = << >>,
                           ![p].out = Result(FALSE, "TX_FAILED", 0, 0, 0, 0)]
  /\ UNCHANGED << clock, users, creditRecords, orders, referrals, nOps, lastGrant, lastEvent, limiterVars, helperCall, entitlementVars >>

\* time passes
Tick ==
  /\ clock < MaxClock
  /\ clock' = clock + 1
  /\ UNCHANGED << users, creditRecords, orders, referrals, lock, proc, nOps, lastGrant, lastEvent, limiterVars, helperCall, entitlementVars >>

----------------------------------------------------------------------------
(* consumeCredits *)

\* (variant) a user id with no row is served as a wallet with nothing in it
consumeCredits_SelectMissingAsEmpty(p) ==
  /\ CanStart(p)
  /\ \E u \in Targets, cost \in Costs :
       proc' = [proc EXCEPT ![p] =
         IF u \notin Users
         THEN Returned("consumeCredits", u, Result(TRUE, "", 0, 0, 0, 0))
         ELSE LET userData == users[u]
                  c == ConsumeCalc(EffectiveDaily(userData, clock),
                                   userData.subscriptionCredits,
                                   userData.bonusCredits, cost)
              IN [Idle EXCEPT !.op = "consumeCredits", !.pc = "update", !.user = u,
                              !.amount = cost, !.at = clock, !.snap = userData,
                              !.out = Result(TRUE, "", c.actualConsumed, c.dailyCredits,
                                             c.subscriptionCredits, c.bonusCredits)]]
  /\ nOps' = nOps + 1
  /\ UNCHANGED << clock, users, creditRecords, orders, referrals, lock, lastGrant, lastEvent, limiterVars, helperCall, entitlementVars >>

\* SELECT the row; the synchronous block after it computes the deductions,
\* for a call with one of the given costs
consumeCredits_Start(p, costs) ==
  /\ CanStart(p)
  /\ \E u \in Targets, cost \in costs :
       proc' = [proc EXCEPT ![p] =
         IF u \notin Users
         THEN Returned("consumeCredits", u, Result(FALSE, "USER_NOT_FOUND", 0, 0, 0, 0))
         ELSE LET userData == users[u]
                  c == ConsumeCalc(EffectiveDaily(userData, clock),
                                   userData.subscriptionCredits,
                                   userData.bonusCredits, cost)
              IN [Idle EXCEPT !.op = "consumeCredits", !.pc = "update", !.user = u,
                              !.amount = cost, !.at = clock, !.snap = userData,
                              !.out = Result(TRUE, "", c.actualConsumed, c.dailyCredits,
                                             c.subscriptionCredits, c.bonusCredits)]]
  /\ nOps' = nOps + 1
  /\ UNCHANGED << clock, users, creditRecords, orders, referrals, lock, lastGrant, lastEvent, limiterVars, helperCall, entitlementVars >>

consumeCredits_Select(p) == consumeCredits_Start(p, Costs)

\* (variant) the record inserted whatever was consumed
consumeCredits_UpdateAlwaysRecords(p) ==
  /\ proc[p].op = "consumeCredits" /\ proc[p].pc = "update"
  /\ CanWrite(p, proc[p].user)
  /\ LET u == proc[p].user
         userData == proc[p].snap
         out == proc[p].out
         balanceBefore == ConsumeBalanceBefore(userData, proc[p].at)
         balanceAfter == out.dailyCredits + out.subscriptionCredits + out.bonusCredits
         row == [CurrentRow(p, u) EXCEPT
                   !.dailyCredits = out.dailyCredits,
                   !.subscriptionCredits = out.subscriptionCredits,
                   !.bonusCredits = out.bonusCredits,
                   !.dailyCreditsResetAt =
                      IF needsDailyReset(userData.dailyCreditsResetAt, proc[p].at)
                      THEN proc[p].at ELSE @,
                   !.ver = @ + 1]
     IN /\ proc' = [proc EXCEPT ![p].pc = "commit",
                                ![p].wr = WithWrite(proc[p].wr, u, row),
                                ![p].recs =
                                   << CreditRecord(u, "generation", -out.creditsConsumed,
                                        balanceBefore, balanceAfter, "mixed",
                                        proc[p].at, "") >>]
        /\ lock' = [lock EXCEPT ![u] = p]
  /\ UNCHANGED << clock, users, creditRecords, orders, referrals, nOps, lastGrant, lastEvent, limiterVars, helperCall, entitlementVars >>

\* UPDATE the three pools to the computed values, then INSERT the record
consumeCredits_Update(p) ==
  /\ proc[p].op = "consumeCredits" /\ proc[p].pc = "update"
  /\ CanWrite(p, proc[p].user)
  /\ LET u == proc[p].user
         userData == proc[p].snap
         out == proc[p].out
         balanceBefore == ConsumeBalanceBefore(userData, proc[p].at)
         balanceAfter == out.dailyCredits + out.subscriptionCredits + out.bonusCredits
         row == [CurrentRow(p, u) EXCEPT
                   !.dailyCredits = out.dailyCredits,
                   !.subscriptionCredits = out.subscriptionCredits,
                   !.bonusCredits = out.bonusCredits,
                   !.dailyCreditsResetAt =
                      IF needsDailyReset(userData.dailyCreditsResetAt, proc[p].at)
                      THEN proc[p].at ELSE @,
                   !.ver = @ + 1]
     IN /\ proc' = [proc EXCEPT ![p].pc = "commit",
                                ![p].wr = WithWrite(proc[p].wr, u, row),
                                ![p].recs =
                                   IF out.creditsConsumed > 0
                                   THEN << CreditRecord(u, "generation", -out.creditsConsumed,
                                             balanceBefore, balanceAfter, "mixed",
                                             proc[p].at, "") >>
                                   ELSE << >>]
        /\ lock' = [lock EXCEPT ![u] = p]
  /\ UNCHANGED << clock, users, creditRecords, orders, referrals, nOps, lastGrant, lastEvent, limiterVars, helperCall, entitlementVars >>

----------------------------------------------------------------------------
(* getUserCreditsBalance and grantDailyLoginReward *)

getUserCreditsBalance_Select(p) ==
  /\ CanStart(p)
  /\ \E u \in Targets :
       proc' = [proc EXCEPT ![p] =
         IF u \notin Users
         THEN Returned("getUserCreditsBalance", u, NoResult)
         ELSE LET userData == users[u]
                  out == Result(TRUE, "", 0, EffectiveDaily(userData, clock),
                                userData.subscriptionCredits, userData.bonusCredits)
              IN IF needsDailyReset(userData.dailyCreditsResetAt, clock)
                 THEN [Idle EXCEPT !.op = "getUserCreditsBalance", !.pc = "update",
                                   !.user = u, !.at = clock, !.snap = userData, !.out = out]
                 ELSE [Returned("getUserCreditsBalance", u, out) EXCEPT
                         !.at = clock, !.snap = userData]]
  /\ nOps' = nOps + 1
  /\ UNCHANGED << clock, users, creditRecords, orders, referrals, lock, lastGrant, lastEvent, limiterVars, helperCall, entitlementVars >>

\* UPDATE: the expired daily credits are zeroed and the reset stamped
getUserCreditsBalance_Update(p) ==
  /\ proc[p].op = "getUserCreditsBalance" /\ proc[p].pc = "update"
  /\ CanWrite(p, proc[p].user)
  /\ LET u == proc[p].user
         row == [CurrentRow(p, u) EXCEPT !.dailyCredits = 0,
                                         !.dailyCreditsResetAt = proc[p].at,
                                         !.ver = @ + 1]
     IN /\ proc' = [proc EXCEPT ![p].pc = "commit", ![p].wr = WithWrite(proc[p].wr, u, row)]
        /\ lock' = [lock EXCEPT ![u] = p]
  /\ UNCHANGED << clock, users, creditRecords, orders, referrals, nOps, lastGrant, lastEvent, limiterVars, helperCall, entitlementVars >>

grantDailyLoginReward_Select(p) ==
  /\ CanStart(p)
  /\ \E u \in Targets :
       /\ proc' = [proc EXCEPT ![p] =
            IF u \notin Users
            THEN Returned("grantDailyLoginReward", u, NoResult)
            ELSE LET userData == users[u]
                 IN IF needsDailyReset(userData.dailyCreditsResetAt, clock)
                    THEN [Idle EXCEPT !.op = "grantDailyLoginReward", !.pc = "update",
                                      !.user = u, !.at = clock, !.snap = userData,
                                      !.out = Result(TRUE, "", 0, DAILY_LOGIN_REWARD,
                                                     userData.subscriptionCredits,
                                                     userData.bonusCredits)]
                    ELSE [Returned("grantDailyLoginReward", u,
                                   Result(TRUE, "", 0, userData.dailyCredits,
                                          userData.subscriptionCredits,
                                          userData.bonusCredits))
                            EXCEPT !.at = clock, !.snap = userData]]
       /\ lastGrant' =
            IF u \in Users /\ ~needsDailyReset(users[u].dailyCreditsResetAt, clock)
            THEN [lastGrant EXCEPT ![u] = clock]
            ELSE lastGrant
  /\ nOps' = nOps + 1
  /\ UNCHANGED << clock, users, creditRecords, orders, referrals, lock, lastEvent, limiterVars, helperCall, entitlementVars >>

\* UPDATE the daily pool to the reward, then INSERT the daily_login record
grantDailyLoginReward_Update(p) ==
  /\ proc[p].op = "grantDailyLoginReward" /\ proc[p].pc = "update"
  /\ CanWrite(p, proc[p].user)
  /\ LET u == proc[p].user
         userData == proc[p].snap
         balanceBefore == 0 + userData.subscriptionCredits + userData.bonusCredits
         row == [CurrentRow(p, u) EXCEPT !.dailyCredits = DAILY_LOGIN_REWARD,
                                         !.dailyCreditsResetAt = proc[p].at,
                                         !.ver = @ + 1]
     IN /\ proc' = [proc EXCEPT ![p].pc = "commit",
                                ![p].wr = WithWrite(proc[p].wr, u, row),
                                ![p].recs =
                                   << CreditRecord(u, "daily_login", DAILY_LOGIN_REWARD,
                                        balanceBefore, balanceBefore + DAILY_LOGIN_REWARD,
                                        "daily", proc[p].at, "") >>]
        /\ lock' = [lock EXCEPT ![u] = p]
  /\ UNCHANGED << clock, users, creditRecords, orders, referrals, nOps, lastGrant, lastEvent, limiterVars, helperCall, entitlementVars >>

----------------------------------------------------------------------------
(* checkCreditsReserve, addBonusCredits and resetSubscriptionCredits *)

\* the credits addBonusCredits is called with
BonusAmounts == {4, 5}
\* the (tier, expiresAt) resetSubscriptionCredits is called with
ResetArguments == { << "starter", FarFuture >>, << "pro", 2 >> }

\* (variant) the reserve must be exceeded, not only met
ReserveAllowedAboveMinimum(totalAvailable) == totalAvailable > MIN_RESERVE_CREDITS

\* the pre-check passes unless the total is below the minimum reserve
ReserveAllowed(totalAvailable) == ~(totalAvailable < MIN_RESERVE_CREDITS)

\* SELECT the row; the result is computed from what was read
checkCreditsReserve_Select(p) ==
  /\ CanStart(p)
  /\ \E u \in Targets :
       proc' = [proc EXCEPT ![p] =
         IF u \notin Users
         THEN Returned("checkCreditsReserve", u, Result(FALSE, "USER_NOT_FOUND", 0, 0, 0, 0))
         ELSE LET userData == users[u]
                  dailyCredits == EffectiveDaily(userData, clock)
                  totalAvailable == dailyCredits + userData.subscriptionCredits
                                      + userData.bonusCredits
                  out == IF ReserveAllowed(totalAvailable)
                         THEN Result(TRUE, "", 0, dailyCredits,
                                     userData.subscriptionCredits, userData.bonusCredits)
                         ELSE Result(FALSE, "INSUFFICIENT_CREDITS", 0, dailyCredits,
                                     userData.subscriptionCredits, userData.bonusCredits)
              IN IF needsDailyReset(userData.dailyCreditsResetAt, clock)
                 THEN [Idle EXCEPT !.op = "checkCreditsReserve", !.pc = "update",
                                   !.user = u, !.at = clock, !.snap = userData, !.out = out]
                 ELSE [Returned("checkCreditsReserve", u, out) EXCEPT
                         !.at = clock, !.snap = userData]]
  /\ nOps' = nOps + 1
  /\ UNCHANGED << clock, users, creditRecords, orders, referrals, lock, lastGrant, lastEvent, limiterVars, helperCall, entitlementVars >>

\* UPDATE: the expired daily credits are zeroed and the reset stamped
checkCreditsReserve_Update(p) ==
  /\ proc[p].op = "checkCreditsReserve" /\ proc[p].pc = "update"
  /\ CanWrite(p, proc[p].user)
  /\ LET u == proc[p].user
         row == [CurrentRow(p, u) EXCEPT !.dailyCredits = 0,
                                         !.dailyCreditsResetAt = proc[p].at,
                                         !.ver = @ + 1]
     IN /\ proc' = [proc EXCEPT ![p].pc = "commit", ![p].wr = WithWrite(proc[p].wr, u, row)]
        /\ lock' = [lock EXCEPT ![u] = p]
  /\ UNCHANGED << clock, users, creditRecords, orders, referrals, nOps, lastGrant, lastEvent, limiterVars, helperCall, entitlementVars >>

\* one UPDATE outside any transaction: bonusCredits = bonusCredits + credits
addBonusCredits(p) ==
  /\ CanStart(p)
  /\ \E u \in Targets, credits \in BonusAmounts :
       IF u \notin Users
       THEN /\ proc' = [proc EXCEPT ![p] =
                 [Returned("addBonusCredits", u, NoResult) EXCEPT !.amount = credits]]
            /\ users' = users
       ELSE /\ CanWrite(p, u)
            /\ proc' = [proc EXCEPT ![p] =
                 [Returned("addBonusCredits", u, NoResult) EXCEPT
                    !.amount = credits, !.at = clock, !.snap = users[u]]]
            /\ users' = [users EXCEPT ![u].bonusCredits = @ + credits, ![u].ver = @ + 1]
  /\ nOps' = nOps + 1
  /\ UNCHANGED << clock, creditRecords, orders, referrals, lock, lastGrant, lastEvent, limiterVars, helperCall, entitlementVars >>

\* one UPDATE outside any transaction: the subscription pool set to the
\* limit of the tier, the reset stamped
resetSubscriptionCredits(p) ==
  /\ CanStart(p)
  /\ \E u \in Targets, arguments \in ResetArguments :
       LET tier == arguments[1]
           expiresAt == arguments[2]
           creditsAmount == getSubscriptionCreditsLimit(tier, expiresAt, clock)
           call == [Returned("resetSubscriptionCredits", u, NoResult) EXCEPT
                      !.tier = tier, !.expiresAt = expiresAt, !.amount = creditsAmount,
                      !.at = clock]
       IN IF u \notin Users
          THEN /\ proc' = [proc EXCEPT ![p] = call]
               /\ users' = users
          ELSE /\ CanWrite(p, u)
               /\ proc' = [proc EXCEPT ![p] = [call EXCEPT !.snap = users[u]]]
               /\ users' = [users EXCEPT ![u].subscriptionCredits = creditsAmount,
                                         ![u].subscriptionCreditsResetAt = clock,
                                         ![u].ver = @ + 1]
  /\ nOps' = nOps + 1
  /\ UNCHANGED << clock, creditRecords, orders, referrals, lock, lastGrant, lastEvent, limiterVars, helperCall, entitlementVars >>

----------------------------------------------------------------------------
(* The Stripe webhook: credit purchase *)

\* (variant) the insert does not wait for an uncommitted order of the session
OrderInsertNeverPending(p, id) == FALSE

\* another transaction has inserted an order for the session and not ended
OrderInsertPending(p, id) ==
  \E q \in Procs \ {p} : \E i \in DOMAIN proc[q].ord : proc[q].ord[i].stripeSessionId = id

OrderExists(id) == \E i \in DOMAIN orders : orders[i].stripeSessionId = id

\* INSERT ... ON CONFLICT (stripe_session_id) DO NOTHING RETURNING id, which
\* waits for an uncommitted insert of the same session id to end; when a row
\* was inserted, the SELECT of the user row follows
handleCreditPurchase_Insert(p) ==
  /\ CanStart(p)
  /\ \E id \in CreditSessions :
       LET session == CheckoutSessions[id]
           u == session.userId
       IN /\ ~OrderInsertPending(p, id)
          /\ proc' = [proc EXCEPT ![p] =
               IF session.credits <= 0 \/ session.credits > MAX_PURCHASE_CREDITS
               THEN [Returned("handleCreditPurchase", u,
                              Result(TRUE, "INVALID", 0, 0, 0, 0)) EXCEPT !.session = id]
               ELSE IF OrderExists(id)
               THEN [Returned("handleCreditPurchase", u,
                              Result(TRUE, "DUPLICATE", 0, 0, 0, 0)) EXCEPT !.session = id]
               ELSE [Idle EXCEPT !.op = "handleCreditPurchase", !.pc = "update",
                                 !.user = u, !.session = id, !.amount = session.credits,
                                 !.at = clock, !.snap = users[u],
                                 !.ord = <<[ stripeSessionId |-> id, userId |-> u,
                                            packageId |-> session.packageId,
                                            credits |-> session.credits ]>>]]
  /\ nOps' = nOps + 1
  /\ UNCHANGED << clock, users, creditRecords, orders, referrals, lock, lastGrant, lastEvent, limiterVars, helperCall, entitlementVars >>

\* UPDATE bonusCredits = bonusCredits + credits, then INSERT the record
handleCreditPurchase_Update(p) ==
  /\ proc[p].op = "handleCreditPurchase" /\ proc[p].pc = "update"
  /\ CanWrite(p, proc[p].user)
  /\ LET u == proc[p].user
         userData == proc[p].snap
         credits == proc[p].amount
         totalBefore == userData.bonusCredits + userData.dailyCredits
                          + userData.subscriptionCredits
         row == [CurrentRow(p, u) EXCEPT !.bonusCredits = @ + credits, !.ver = @ + 1]
     IN /\ proc' = [proc EXCEPT ![p].pc = "commit",
                                ![p].wr = WithWrite(proc[p].wr, u, row),
                                ![p].recs =
                                   << CreditRecord(u, "purchase", credits, totalBefore,
                                        totalBefore + credits, "bonus", proc[p].at,
                                        proc[p].session) >>,
                                ![p].out = Result(TRUE, "", 0, 0, 0, 0)]
        /\ lock' = [lock EXCEPT ![u] = p]
  /\ UNCHANGED << clock, users, creditRecords, orders, referrals, nOps, lastGrant, lastEvent, limiterVars, helperCall, entitlementVars >>

----------------------------------------------------------------------------
(* The Stripe webhook: subscriptions *)

handleSubscriptionCheckoutCompleted_Insert(p) ==
  /\ CanStart(p)
  /\ \E id \in SubscriptionSessions :
       LET session == CheckoutSessions[id]
           u == session.userId
           subscriptionCreditsAmount ==
             getSubscriptionCreditsLimit(session.planId, session.current_period_end, clock)
       IN /\ ~OrderInsertPending(p, id)
          /\ proc' = [proc EXCEPT ![p] =
               IF session.planId \notin {"starter", "pro", "max"}
               THEN [Returned("handleSubscriptionCheckoutCompleted", u,
                              Result(TRUE, "INVALID", 0, 0, 0, 0)) EXCEPT !.session = id]
               ELSE IF OrderExists(id)
               THEN [Returned("handleSubscriptionCheckoutCompleted", u,
                              Result(TRUE, "DUPLICATE", 0, 0, 0, 0)) EXCEPT !.session = id]
               ELSE [Idle EXCEPT !.op = "handleSubscriptionCheckoutCompleted",
                                 !.pc = "update", !.user = u, !.session = id,
                                 !.amount = subscriptionCreditsAmount, !.at = clock,
                                 !.snap = users[u],
                                 !.ord = <<[ stripeSessionId |-> id, userId |-> u,
                                            packageId |-> session.planId,
                                            credits |-> subscriptionCreditsAmount ]>>]]
  /\ nOps' = nOps + 1
  /\ UNCHANGED << clock, users, creditRecords, orders, referrals, lock, lastGrant, lastEvent, limiterVars, helperCall, entitlementVars >>

\* UPDATE the tier, the expiry and the subscription pool, INSERT the record
handleSubscriptionCheckoutCompleted_Update(p) ==
  /\ proc[p].op = "handleSubscriptionCheckoutCompleted" /\ proc[p].pc = "update"
  /\ CanWrite(p, proc[p].user)
  /\ LET u == proc[p].user
         session == CheckoutSessions[proc[p].session]
         subscriptionCreditsAmount == proc[p].amount
         row == [CurrentRow(p, u) EXCEPT
                   !.subscriptionTier = session.planId,
                   !.subscriptionExpiresAt = session.current_period_end,
                   !.subscriptionCredits = subscriptionCreditsAmount,
                   !.subscriptionCreditsResetAt = clock,
                   !.ver = @ + 1]
     IN /\ proc' = [proc EXCEPT ![p].pc = "commit",
                                ![p].wr = WithWrite(proc[p].wr, u, row),
                                ![p].recs =
                                   << CreditRecord(u, "subscription_reset",
                                        subscriptionCreditsAmount, 0,
                                        subscriptionCreditsAmount, "subscription",
                                        proc[p].at, proc[p].session) >>,
                                ![p].out = Result(TRUE, "", 0, 0, 0, 0)]
        /\ lock' = [lock EXCEPT ![u] = p]
  /\ UNCHANGED << clock, users, creditRecords, orders, referrals, nOps, lastGrant, lastEvent, limiterVars, helperCall, entitlementVars >>

\* customer.subscription.created / updated: one UPDATE outside any
\* transaction, which commits as soon as it has the row lock
handleSubscriptionUpdated(p) ==
  /\ CanStart(p)
  /\ \E id \in DOMAIN SubscriptionEvents :
       LET subscription == SubscriptionEvents[id]
           u == CustomerUser[subscription.customer]
           isActive == subscription.status \in {"active", "trialing"}
           planId == IF subscription.planId = "" THEN "pro" ELSE subscription.planId
           tier == IF isActive /\ planId \in {"starter", "pro", "max"} THEN planId ELSE "free"
           subscriptionCreditsAmount ==
             getSubscriptionCreditsLimit(tier, subscription.current_period_end, clock)
       IN IF u \notin Users
          THEN /\ proc' = [proc EXCEPT ![p] =
                    [Returned("handleSubscriptionUpdated", u,
                              Result(TRUE, "USER_NOT_FOUND", 0, 0, 0, 0))
                       EXCEPT !.session = id]]
               /\ users' = users
               /\ lastEvent' = id
          ELSE /\ CanWrite(p, u)
               /\ proc' = [proc EXCEPT ![p] =
                    [Returned("handleSubscriptionUpdated", u, Result(TRUE, "", 0, 0, 0, 0))
                       EXCEPT !.at = clock, !.amount = subscriptionCreditsAmount,
                              !.session = id]]
               /\ lastEvent' = id
               /\ users' = [users EXCEPT ![u] =
                    IF isActive
                    THEN [@ EXCEPT !.subscriptionTier = tier,
                                   !.subscriptionExpiresAt = subscription.current_period_end,
                                   !.subscriptionCredits = subscriptionCreditsAmount,
                                   !.subscriptionCreditsResetAt = clock,
                                   !.ver = @ + 1]
                    ELSE [@ EXCEPT !.subscriptionTier = tier,
                                   !.subscriptionExpiresAt = subscription.current_period_end,
                                   !.ver = @ + 1]]
  /\ nOps' = nOps + 1
  /\ UNCHANGED << clock, creditRecords, orders, referrals, lock, lastGrant, limiterVars, helperCall, entitlementVars >>

\* (variant) the tier downgraded, the subscription credits kept
handleSubscriptionDeletedKeepsCredits(p) ==
  /\ CanStart(p)
  /\ \E customer \in DOMAIN CustomerUser :
       LET u == CustomerUser[customer]
       IN IF u \notin Users
          THEN /\ proc' = [proc EXCEPT ![p] =
                    Returned("handleSubscriptionDeleted", u,
                             Result(TRUE, "USER_NOT_FOUND", 0, 0, 0, 0))]
               /\ users' = users
          ELSE /\ CanWrite(p, u)
               /\ proc' = [proc EXCEPT ![p] =
                    [Returned("handleSubscriptionDeleted", u, Result(TRUE, "", 0, 0, 0, 0))
                       EXCEPT !.at = clock]]
               /\ users' = [users EXCEPT ![u] =
                    [@ EXCEPT !.subscriptionTier = "free",
                              !.subscriptionExpiresAt = Null,
                              !.subscriptionCreditsResetAt = Null,
                              !.ver = @ + 1]]
  /\ lastEvent' = "deleted"
  /\ nOps' = nOps + 1
  /\ UNCHANGED << clock, creditRecords, orders, referrals, lock, lastGrant, limiterVars, helperCall, entitlementVars >>

\* customer.subscription.deleted: one UPDATE outside any transaction
handleSubscriptionDeleted(p) ==
  /\ CanStart(p)
  /\ \E customer \in DOMAIN CustomerUser :
       LET u == CustomerUser[customer]
       IN IF u \notin Users
          THEN /\ proc' = [proc EXCEPT ![p] =
                    Returned("handleSubscriptionDeleted", u,
                             Result(TRUE, "USER_NOT_FOUND", 0, 0, 0, 0))]
               /\ users' = users
          ELSE /\ CanWrite(p, u)
               /\ proc' = [proc EXCEPT ![p] =
                    [Returned("handleSubscriptionDeleted", u, Result(TRUE, "", 0, 0, 0, 0))
                       EXCEPT !.at = clock]]
               /\ users' = [users EXCEPT ![u] =
                    [@ EXCEPT !.subscriptionTier = "free",
                              !.subscriptionExpiresAt = Null,
                              !.subscriptionCredits = 0,
                              !.subscriptionCreditsResetAt = Null,
                              !.ver = @ + 1]]
  /\ lastEvent' = "deleted"
  /\ nOps' = nOps + 1
  /\ UNCHANGED << clock, creditRecords, orders, referrals, lock, lastGrant, limiterVars, helperCall, entitlementVars >>

----------------------------------------------------------------------------
(* grantCredits *)

\* the amounts grantCredits does not refuse
ValidGrantAmount(amount) == ~(amount <= 0 \/ amount > MAX_GRANT_AMOUNT)

\* the validation and the SELECT of the target's row, for a call with one of
\* the given amounts
grantCredits_Start(p, amounts) ==
  /\ CanStart(p)
  /\ \E targetUserId \in Targets, amount \in amounts,
        adminId \in AdminIds, reason \in GrantReasons :
       LET fail(code) == [Returned("grantCredits", targetUserId,
                                   Result(FALSE, code, 0, 0, 0, 0))
                            EXCEPT !.amount = amount, !.other = adminId,
                                   !.reason = reason, !.at = clock]
       IN proc' = [proc EXCEPT ![p] =
            IF ~ValidGrantAmount(amount) THEN fail("INVALID")
            ELSE IF targetUserId \notin Users THEN fail("USER_NOT_FOUND")
            ELSE [Idle EXCEPT !.op = "grantCredits", !.pc = "update",
                              !.user = targetUserId, !.other = adminId,
                              !.reason = reason, !.amount = amount, !.at = clock,
                              !.snap = users[targetUserId]]]
  /\ nOps' = nOps + 1
  /\ UNCHANGED << clock, users, creditRecords, orders, referrals, lock, lastGrant, lastEvent, limiterVars, helperCall, entitlementVars >>

grantCredits_Select(p) == grantCredits_Start(p, GrantAmounts)

\* UPDATE bonusCredits to the sum computed from the row read, INSERT the record
grantCredits_Update(p) ==
  /\ proc[p].op = "grantCredits" /\ proc[p].pc = "update"
  /\ CanWrite(p, proc[p].user)
  /\ LET u == proc[p].user
         targetUser == proc[p].snap
         amount == proc[p].amount
         currentBonus == targetUser.bonusCredits
         newBonus == currentBonus + amount
         totalBalanceBefore == currentBonus + targetUser.dailyCredits
                                 + targetUser.subscriptionCredits
         totalBalanceAfter == totalBalanceBefore + amount
         row == [CurrentRow(p, u) EXCEPT !.bonusCredits = newBonus, !.ver = @ + 1]
     IN /\ proc' = [proc EXCEPT ![p].pc = "commit",
                                ![p].wr = WithWrite(proc[p].wr, u, row),
                                ![p].recs =
                                   << [CreditRecord(u, "admin_grant", amount,
                                         totalBalanceBefore, totalBalanceAfter, "bonus",
                                         proc[p].at, proc[p].other)
                                         EXCEPT !.reason = proc[p].reason] >>,
                                ![p].out = Result(TRUE, "", 0, 0, 0, newBonus)]
        /\ lock' = [lock EXCEPT ![u] = p]
  /\ UNCHANGED << clock, users, creditRecords, orders, referrals, nOps, lastGrant, lastEvent, limiterVars, helperCall, entitlementVars >>

----------------------------------------------------------------------------
(* applyReferralCode *)

\* (variant) a user naming themself is not refused
SelfReferralUnchecked(referredUserId, referrerUserId) == FALSE

\* the referred user names themself as the referrer
SelfReferral(referredUserId, referrerUserId) == referredUserId = referrerUserId

\* (variant) the lookup of an earlier referral finds nothing
ReferralNeverExists(referredUserId) == FALSE

\* a committed referral row names the user as the referred one
ReferralExists(referredUserId) ==
  \E i \in DOMAIN referrals : referrals[i].referredId = referredUserId

\* another transaction has inserted a referral of the user and not ended:
\* the unique index on referred_id makes a second INSERT wait for it
ReferralInsertPending(p, referredUserId) ==
  \E q \in Procs \ {p} :
    \E i \in DOMAIN proc[q].refs : proc[q].refs[i].referredId = referredUserId

\* the unique index on referred_id rejects the INSERT
ReferralUniqueViolation(referredUserId) ==
  \E i \in DOMAIN referrals : referrals[i].referredId = referredUserId

\* the referrals of the ip created on the UTC day of now or later
IpReferralsToday(ip, now) ==
  Cardinality({i \in DOMAIN referrals :
     /\ referrals[i].ipAddress = ip
     /\ \/ referrals[i].createdAt >= now
        \/ SameUTCDay(referrals[i].createdAt, now)})

\* (variant) the referral row written before the two limits are checked and
\* outside the transaction
applyReferralCode_StartInsertFirst(p, pairs, ips) ==
  /\ CanStart(p)
  /\ \E pair \in pairs, ip \in ips :
       LET referredUserId == pair[1]
           referrerUserId == pair[2]
           fail(code) == [Returned("applyReferralCode", referredUserId,
                                   Result(FALSE, code, 0, 0, 0, 0))
                            EXCEPT !.other = referrerUserId, !.ip = ip, !.at = clock]
           row == [ referrerId |-> referrerUserId, referredId |-> referredUserId,
                    referrerCredits |-> REFERRER_REWARD,
                    referredCredits |-> REFERRED_REWARD,
                    ipAddress |-> ip, createdAt |-> clock ]
           limited == /\ ~SelfReferral(referredUserId, referrerUserId)
                      /\ ~ReferralExists(referredUserId)
                      /\ referrerUserId \in Users
       IN /\ proc' = [proc EXCEPT ![p] =
               IF SelfReferral(referredUserId, referrerUserId) THEN fail("SELF_REFERRAL")
               ELSE IF ReferralExists(referredUserId) THEN fail("ALREADY_APPLIED")
               ELSE IF referrerUserId \notin Users THEN fail("REFERRER_NOT_FOUND")
               ELSE IF users[referrerUserId].referralCreditsThisMonth >= MONTHLY_LIMIT
               THEN fail("MONTHLY_LIMIT")
               ELSE fail("IP_LIMIT")]
          /\ referrals' = IF limited THEN Append(referrals, row) ELSE referrals
  /\ nOps' = nOps + 1
  /\ UNCHANGED << clock, users, creditRecords, orders, lock, lastGrant, lastEvent, limiterVars, helperCall, entitlementVars >>

\* the checks, in the order the handler makes them, for a call with one of
\* the given (referred, referrer) pairs from one of the given addresses
applyReferralCode_Start(p, pairs, ips) ==
  /\ CanStart(p)
  /\ \E pair \in pairs, ip \in ips :
       LET referredUserId == pair[1]
           referrerUserId == pair[2]
           fail(code) == [Returned("applyReferralCode", referredUserId,
                                   Result(FALSE, code, 0, 0, 0, 0))
                            EXCEPT !.other = referrerUserId, !.ip = ip, !.at = clock]
       IN proc' = [proc EXCEPT ![p] =
               IF SelfReferral(referredUserId, referrerUserId) THEN fail("SELF_REFERRAL")
               ELSE IF ReferralExists(referredUserId) THEN fail("ALREADY_APPLIED")
               ELSE IF referrerUserId \notin Users THEN fail("REFERRER_NOT_FOUND")
               ELSE IF users[referrerUserId].referralCreditsThisMonth >= MONTHLY_LIMIT
               THEN fail("MONTHLY_LIMIT")
               ELSE IF IpReferralsToday(ip, clock) >= MAX_REFERRALS_PER_IP_PER_DAY
               THEN fail("IP_LIMIT")
               ELSE [Idle EXCEPT !.op = "applyReferralCode", !.pc = "insert",
                                 !.user = referredUserId, !.other = referrerUserId,
                                 !.ip = ip, !.at = clock]]
  /\ nOps' = nOps + 1
  /\ UNCHANGED << clock, users, creditRecords, orders, referrals, lock, lastGrant, lastEvent, limiterVars, helperCall, entitlementVars >>

applyReferralCode_Check(p) == applyReferralCode_Start(p, ReferralPairs, ClientIps)

\* INSERT of the referral row: it waits for an uncommitted row of the same
\* referred user and fails when a committed one exists
applyReferralCode_Insert(p) ==
  /\ proc[p].op = "applyReferralCode" /\ proc[p].pc = "insert"
  /\ ~ReferralInsertPending(p, proc[p].user)
  /\ proc' = [proc EXCEPT ![p] =
       IF ReferralUniqueViolation(proc[p].user)
       THEN [@ EXCEPT !.pc = "done", !.out = Result(FALSE, "TX_FAILED", 0, 0, 0, 0)]
       ELSE [@ EXCEPT !.pc = "update",
                      !.refs = <<[ referrerId |-> proc[p].other,
                                  referredId |-> proc[p].user,
                                  referrerCredits |-> REFERRER_REWARD,
                                  referredCredits |-> REFERRED_REWARD,
                                  ipAddress |-> proc[p].ip, createdAt |-> clock ]>>]]
  /\ UNCHANGED << clock, users, creditRecords, orders, referrals, lock, nOps, lastGrant,
                  lastEvent, limiterVars, helperCall, entitlementVars >>

\* (variant) the referrer's UPDATE leaves totalReferralCredits as it was
applyReferralCode_UpdateNoLifetimeTotal(p) ==
  /\ proc[p].op = "applyReferralCode" /\ proc[p].pc = "update"
  /\ CanWrite(p, proc[p].user) /\ CanWrite(p, proc[p].other)
  /\ LET referredUserId == proc[p].user
         referrerUserId == proc[p].other
         referrerData == [CurrentRow(p, referrerUserId) EXCEPT
                            !.bonusCredits = @ + REFERRER_REWARD,
                            !.referralCreditsThisMonth = @ + REFERRER_REWARD,
                            !.totalReferrals = @ + 1,
                            !.ver = @ + 1]
         referredData == [CurrentRow(p, referredUserId) EXCEPT
                            !.bonusCredits = @ + REFERRED_REWARD,
                            !.ver = @ + 1]
         referrerTotal == TotalOf(referrerData)
         referredTotal == TotalOf(referredData)
     IN /\ proc' = [proc EXCEPT
              ![p].pc = "commit",
              ![p].wr = WithWrite(WithWrite(proc[p].wr, referrerUserId, referrerData),
                                  referredUserId, referredData),
              ![p].recs =
                 << CreditRecord(referrerUserId, "referral_inviter", REFERRER_REWARD,
                      referrerTotal - REFERRER_REWARD, referrerTotal, "bonus",
                      proc[p].at, referredUserId),
                    CreditRecord(referredUserId, "referral_invitee", REFERRED_REWARD,
                      referredTotal - REFERRED_REWARD, referredTotal, "bonus",
                      proc[p].at, referrerUserId) >>,
              ![p].out = Result(TRUE, "", 0, 0, 0, 0)]
        /\ lock' = [u \in Users |->
                      IF u \in {referredUserId, referrerUserId} THEN p ELSE lock[u]]
  /\ UNCHANGED << clock, users, creditRecords, orders, referrals, nOps, lastGrant, lastEvent, limiterVars, helperCall, entitlementVars >>

\* the two UPDATEs that add the rewards, the two SELECTs that read the rows
\* back and the INSERT of the two records
applyReferralCode_Update(p) ==
  /\ proc[p].op = "applyReferralCode" /\ proc[p].pc = "update"
  /\ CanWrite(p, proc[p].user) /\ CanWrite(p, proc[p].other)
  /\ LET referredUserId == proc[p].user
         referrerUserId == proc[p].other
         referrerData == [CurrentRow(p, referrerUserId) EXCEPT
                            !.bonusCredits = @ + REFERRER_REWARD,
                            !.referralCreditsThisMonth = @ + REFERRER_REWARD,
                            !.totalReferralCredits = @ + REFERRER_REWARD,
                            !.totalReferrals = @ + 1,
                            !.ver = @ + 1]
         referredData == [CurrentRow(p, referredUserId) EXCEPT
                            !.bonusCredits = @ + REFERRED_REWARD,
                            !.ver = @ + 1]
         referrerTotal == TotalOf(referrerData)
         referredTotal == TotalOf(referredData)
     IN /\ proc' = [proc EXCEPT
              ![p].pc = "commit",
              ![p].wr = WithWrite(WithWrite(proc[p].wr, referrerUserId, referrerData),
                                  referredUserId, referredData),
              ![p].recs =
                 << CreditRecord(referrerUserId, "referral_inviter", REFERRER_REWARD,
                      referrerTotal - REFERRER_REWARD, referrerTotal, "bonus",
                      proc[p].at, referredUserId),
                    CreditRecord(referredUserId, "referral_invitee", REFERRED_REWARD,
                      referredTotal - REFERRED_REWARD, referredTotal, "bonus",
                      proc[p].at, referrerUserId) >>,
              ![p].out = Result(TRUE, "", 0, 0, 0, 0)]
        /\ lock' = [u \in Users |->
                      IF u \in {referredUserId, referrerUserId} THEN p ELSE lock[u]]
  /\ UNCHANGED << clock, users, creditRecords, orders, referrals, nOps, lastGrant, lastEvent, limiterVars, helperCall, entitlementVars >>

----------------------------------------------------------------------------
(* The rate limiter *)

\* the cleanup timer fires every CLEANUP_INTERVAL_MS and deletes the keys
\* whose newest timestamp is more than CLEANUP_IDLE_MS old
CLEANUP_INTERVAL_MS == 300000
CLEANUP_IDLE_MS == 60000

\* the checkout limit: 5 attempts per hour
CHECKOUT_LIMIT == [ windowMs |-> 3600000, maxRequests |-> 5 ]
\* a limit of two requests per minute, as a caller may pass one
MINUTE_LIMIT == [ windowMs |-> 60000, maxRequests |-> 2 ]

\* the keys checkRateLimit is called with, each with the config of its caller
RateLimitKeys == {"checkout:u1", "minute:u1"}
RateLimitConfig(key) == IF key = "checkout:u1" THEN CHECKOUT_LIMIT ELSE MINUTE_LIMIT

\* the advances of the clock between two calls: to the last millisecond
\* before a minute (an hour) has passed, the one after, and a sweep interval
ElapseMs == {1, 59999, 300000, 3299999}
MaxChecks == 7
MaxElapses == 3

Max(a, b) == IF a >= b THEN a ELSE b

\* the timestamps the Map holds for key, none when it has no entry
Timestamps(map, key) == IF key \in DOMAIN map THEN map[key] ELSE << >>

\* map.set(key, entry)
WithEntry(map, key, timestamps) ==
  [k \in DOMAIN map \cup {key} |-> IF k = key THEN timestamps ELSE map[k]]

\* (variant) the timestamp of a rejected call is kept in the entry as well
RateLimitResultRecordsRejected(timestamps, now, config) ==
  LET windowStart == now - config.windowMs
      kept == SelectSeq(timestamps, LAMBDA ts : ts > windowStart)
  IN IF Len(kept) >= config.maxRequests
     THEN [ limited |-> TRUE, remaining |-> 0,
            resetMs |-> Max(0, kept[1] + config.windowMs - now),
            timestamps |-> Append(kept, now) ]
     ELSE [ limited |-> FALSE,
            remaining |-> config.maxRequests - (Len(kept) + 1),
            resetMs |-> config.windowMs,
            timestamps |-> Append(kept, now) ]

\* the body of checkRateLimit on the timestamps kept for the key: the result
\* and the timestamps it leaves in the entry
RateLimitResult(timestamps, now, config) ==
  LET windowStart == now - config.windowMs
      kept == SelectSeq(timestamps, LAMBDA ts : ts > windowStart)
  IN IF Len(kept) >= config.maxRequests
     THEN [ limited |-> TRUE, remaining |-> 0,
            resetMs |-> Max(0, kept[1] + config.windowMs - now),
            timestamps |-> kept ]
     ELSE [ limited |-> FALSE,
            remaining |-> config.maxRequests - (Len(kept) + 1),
            resetMs |-> config.windowMs,
            timestamps |-> Append(kept, now) ]

\* the keys the cleanup timer deletes at now
Swept(map, now) ==
  { key \in DOMAIN map :
      Len(map[key]) = 0 \/ map[key][Len(map[key])] < now - CLEANUP_IDLE_MS }

\* the limiter as the module is loaded: an empty Map, the timer just set
LimiterStart ==
  /\ nowMs = 0
  /\ store = [key \in {} |-> << >>]
  /\ lastSweep = 0
  /\ allowed = [key \in RateLimitKeys |-> << >>]
  /\ unswept = [key \in {} |-> << >>]
  /\ lastCheck = [ key |-> "", at |-> 0, limited |-> FALSE, remaining |-> 0, resetMs |-> 0,
                   unsweptLimited |-> FALSE, unsweptRemaining |-> 0 ]
  /\ nChecks = 0
  /\ nElapses = 0
  /\ lastRejected = [key \in RateLimitKeys |-> [ at |-> -1, resetMs |-> 0 ]]

\* one call of checkRateLimit(key, config)
checkRateLimit(key) ==
  /\ nChecks < MaxChecks
  /\ LET config == RateLimitConfig(key)
         result == RateLimitResult(Timestamps(store, key), nowMs, config)
         ghost == RateLimitResult(Timestamps(unswept, key), nowMs, config)
     IN /\ store' = WithEntry(store, key, result.timestamps)
        /\ unswept' = WithEntry(unswept, key, ghost.timestamps)
        /\ allowed' = IF result.limited THEN allowed
                      ELSE [allowed EXCEPT ![key] = Append(@, nowMs)]
        /\ lastCheck' = [ key |-> key, at |-> nowMs, limited |-> result.limited,
                          remaining |-> result.remaining, resetMs |-> result.resetMs,
                          unsweptLimited |-> ghost.limited,
                          unsweptRemaining |-> ghost.remaining ]
        /\ lastRejected' = IF result.limited
                           THEN [lastRejected EXCEPT
                                   ![key] = [ at |-> nowMs, resetMs |-> result.resetMs ]]
                           ELSE lastRejected
  /\ nChecks' = nChecks + 1
  /\ UNCHANGED << nowMs, lastSweep, nElapses, ledgerVars, helperCall, entitlementVars >>

\* the callback of the cleanup timer
cleanup ==
  /\ nowMs >= lastSweep + CLEANUP_INTERVAL_MS
  /\ store' = [key \in DOMAIN store \ Swept(store, nowMs) |-> store[key]]
  /\ lastSweep' = nowMs
  /\ UNCHANGED << nowMs, allowed, unswept, lastCheck, nChecks, nElapses, lastRejected,
                  ledgerVars, helperCall, entitlementVars >>

\* time passes, by one of the given numbers of milliseconds
ElapseBy(ms) ==
  /\ nElapses < MaxElapses
  /\ \E d \in ms : nowMs' = nowMs + d
  /\ nElapses' = nElapses + 1
  /\ UNCHANGED << store, lastSweep, allowed, unswept, lastCheck, nChecks, lastRejected,
                  ledgerVars, helperCall, entitlementVars >>

Elapse == ElapseBy(ElapseMs)

----------------------------------------------------------------------------
(* The entitlements cache *)

\* a cache entry is served for 5 minutes
CACHE_TTL_MS == 300000
\* the advances of the clock between two calls: to the last millisecond an
\* entry is served, and the one after
CacheElapseMs == {1, 299999}
MaxCalls == 3
MaxInvalidations == 1

\* what getUserEntitlementsFresh builds; inv is the number of
\* invalidateEntitlementsCache calls for the user that had returned when the
\* call read the user row
Entitlements(tier, dailyCredits, subscriptionCredits, subscriptionCreditsLimit, bonusCredits, inv) ==
  [ tier |-> tier, dailyCredits |-> dailyCredits,
    subscriptionCredits |-> subscriptionCredits,
    subscriptionCreditsLimit |-> subscriptionCreditsLimit,
    bonusCredits |-> bonusCredits,
    totalCredits |-> dailyCredits + subscriptionCredits + bonusCredits,
    inv |-> inv ]

\* null
NoEntitlements == Entitlements("", 0, 0, 0, 0, 0)

\* an entitlements slot with no call in it; hit tells that the result came
\* from the cache, found that it is not null
NoEntitlementsCall ==
  [ fn |-> "none", pc |-> "idle", user |-> NoUser, tier |-> "", inv |-> 0,
    hit |-> FALSE, found |-> FALSE, result |-> NoEntitlements ]

\* the module as loaded: an empty Map, no call made
EntitlementsStart ==
  /\ cache = [u \in {} |-> [ data |-> NoEntitlements, expiresAt |-> 0, cachedAt |-> 0 ]]
  /\ ent = [e \in Procs |-> NoEntitlementsCall]
  /\ invalidations = [u \in Users |-> 0]
  /\ nCalls = 0

\* A call takes the lowest free slot.
CanCall(e) ==
  /\ ent[e].pc \in {"idle", "done"}
  /\ nCalls < MaxCalls
  /\ \A f \in Procs : f < e => ent[f].pc \notin {"idle", "done"}

\* the entry has not expired
CacheFresh(cached, now) == cached.expiresAt > now

\* the slot of a getUserEntitlementsFresh call (made by fn) after its SELECT
\* of the user row
FreshRead(fn, userId) ==
  IF userId \notin Users
  THEN [NoEntitlementsCall EXCEPT !.fn = fn, !.pc = "done", !.user = userId]
  ELSE [NoEntitlementsCall EXCEPT
          !.fn = fn, !.pc = "balance", !.user = userId,
          !.tier = getEffectiveTier(users[userId].subscriptionTier,
                                    users[userId].subscriptionExpiresAt, clock),
          !.inv = invalidations[userId]]

\* getUserEntitlements: the cached data when the entry has not expired,
\* else getUserEntitlementsFresh
getUserEntitlements(e) ==
  /\ CanCall(e)
  /\ \E userId \in Targets :
       ent' = [ent EXCEPT ![e] =
         IF userId \in DOMAIN cache /\ CacheFresh(cache[userId], nowMs)
         THEN [NoEntitlementsCall EXCEPT
                 !.fn = "getUserEntitlements", !.pc = "done", !.user = userId,
                 !.hit = TRUE, !.found = TRUE,
                 !.result = cache[userId].data]
         ELSE FreshRead("getUserEntitlements", userId)]
  /\ nCalls' = nCalls + 1
  /\ UNCHANGED << cache, invalidations, ledgerVars, limiterVars, helperCall >>

\* getUserEntitlementsFresh called by itself: the SELECT of the user row
getUserEntitlementsFresh(e) ==
  /\ CanCall(e)
  /\ \E userId \in Targets :
       ent' = [ent EXCEPT ![e] = FreshRead("getUserEntitlementsFresh", userId)]
  /\ nCalls' = nCalls + 1
  /\ UNCHANGED << cache, invalidations, ledgerVars, limiterVars, helperCall >>

\* the rest of getUserEntitlementsFresh: the getUserCreditsBalance
\* transaction (with its daily reset), then cache.set and the return
getUserEntitlementsFresh_Balance(e) ==
  /\ ent[e].pc = "balance"
  /\ LET userId == ent[e].user
         userData == users[userId]
         reset == needsDailyReset(userData.dailyCreditsResetAt, clock)
         entitlements == Entitlements(ent[e].tier, EffectiveDaily(userData, clock),
                                      userData.subscriptionCredits,
                                      subscriptionLimit(userData, clock),
                                      userData.bonusCredits, ent[e].inv)
     IN /\ reset => lock[userId] = Null
        /\ users' = IF reset
                    THEN [users EXCEPT ![userId] =
                            [@ EXCEPT !.dailyCredits = 0, !.dailyCreditsResetAt = clock,
                                      !.ver = @ + 1]]
                    ELSE users
        /\ cache' = [u \in DOMAIN cache \cup {userId} |->
                       IF u = userId
                       THEN [ data |-> entitlements, expiresAt |-> nowMs + CACHE_TTL_MS,
                              cachedAt |-> nowMs ]
                       ELSE cache[u]]
        /\ ent' = [ent EXCEPT ![e].pc = "done", ![e].found = TRUE,
                              ![e].result = entitlements]
  /\ UNCHANGED << clock, creditRecords, orders, referrals, lock, proc, nOps, lastGrant,
                  lastEvent, invalidations, nCalls, limiterVars, helperCall >>

ElapseCache == ElapseBy(CacheElapseMs)

\* invalidateEntitlementsCache(userId): cache.delete
invalidateEntitlementsCache ==
  \E userId \in Targets \cap Users :
    /\ invalidations[userId] < MaxInvalidations
    /\ cache' = [u \in DOMAIN cache \ {userId} |-> cache[u]]
    /\ invalidations' = [invalidations EXCEPT ![userId] = @ + 1]
    /\ UNCHANGED << ent, nCalls, ledgerVars, limiterVars, helperCall >>

----------------------------------------------------------------------------
\* every table empty, every wallet as created, no request in flight
InitTables ==
  /\ creditRecords = << >>
  /\ orders = << >>
  /\ referrals = << >>
  /\ lock = [u \in Users |-> Null]
  /\ proc = [p \in Procs |-> Idle]
  /\ nOps = 0
  /\ lastGrant = [u \in Users |-> Null]
  /\ lastEvent = ""
  /\ LimiterStart
  /\ helperCall = NoCall
  /\ EntitlementsStart

\* the tables empty at the first instant of Calendar
InitLedger ==
  /\ clock = 1
  /\ InitTables

Init ==
  /\ InitLedger
  /\ users = [u \in Users |-> NewUser]

\* the steps of the request in slot p
Step(p) ==
  \/ consumeCredits_Select(p)
  \/ consumeCredits_Update(p)
  \/ getUserCreditsBalance_Select(p)
  \/ getUserCreditsBalance_Update(p)
  \/ grantDailyLoginReward_Select(p)
  \/ grantDailyLoginReward_Update(p)
  \/ handleCreditPurchase_Insert(p)
  \/ handleCreditPurchase_Update(p)
  \/ handleSubscriptionCheckoutCompleted_Insert(p)
  \/ handleSubscriptionCheckoutCompleted_Update(p)
  \/ handleSubscriptionUpdated(p)
  \/ handleSubscriptionDeleted(p)
  \/ grantCredits_Select(p)
  \/ grantCredits_Update(p)
  \/ applyReferralCode_Check(p)
  \/ applyReferralCode_Insert(p)
  \/ applyReferralCode_Update(p)
  \/ TxCommit(p)
  \/ TxAbort(p)

Next == Tick \/ \E p \in Procs : Step(p)

\* Requests in any interleaving of their statements.
Spec == Init /\ [][Next]_vars

\* One request at a time: a request starts when no other is in flight.
NextSeq == Tick \/ \E p \in Procs : (\A q \in Procs \ {p} : Free(q)) /\ Step(p)

SpecSeq == Init /\ [][NextSeq]_vars

\* consumeCredits on its own, on a wallet that earlier requests left behind:
\* the pools hold some of the values they can be brought to, the daily
\* credits are those of the current day.
DailyValues == {0, 3, 20}
SubscriptionValues == {0, 30}
BonusValues == {0, 1, 50}

InitConsume ==
  /\ InitLedger
  /\ \E d \in DailyValues, s \in SubscriptionValues, b \in BonusValues :
       users = [u \in Users |->
                  IF u = "u1"
                  THEN [NewUser EXCEPT !.dailyCredits = d, !.dailyCreditsResetAt = 1,
                                       !.subscriptionCredits = s,
                                       !.subscriptionTier = "starter",
                                       !.subscriptionExpiresAt = FarFuture,
                                       !.bonusCredits = b]
                  ELSE NewUser]

NextConsume ==
  \E p \in Procs :
    \/ consumeCredits_Select(p)
    \/ consumeCredits_Update(p)
    \/ TxCommit(p)

SpecConsume == InitConsume /\ [][NextConsume]_vars

----------------------------------------------------------------------------
(* consumeCredits with any cost *)

\* costs a caller may pass: the function takes any number
CostsWide == {-5, 0, 10, 40}

consumeCredits_SelectWide(p) == consumeCredits_Start(p, CostsWide)

NextConsumeWide ==
  \E p \in Procs :
    \/ consumeCredits_SelectWide(p)
    \/ consumeCredits_Update(p)
    \/ TxCommit(p)

SpecConsumeWide == InitConsume /\ [][NextConsumeWide]_vars

----------------------------------------------------------------------------
(* A subscription that runs out *)

\* the period end of the subscription: the second instant of Calendar
PeriodEnd == 2
\* the tiers subscribed to and what is left of the subscription credits
ExpiringTiers == {"starter", "pro"}
LeftOver == {0, 30}

\* the bonus credits in the wallet
BonusHeld == {0, 50}

\* u1 as handleSubscriptionUpdated left the row for an active subscription
\* whose period ends at PeriodEnd, some of the credits spent since, no
\* daily credits and some bonus credits in the wallet
InitExpiring ==
  /\ InitLedger
  /\ \E tier \in ExpiringTiers, left \in LeftOver, b \in BonusHeld :
       users = [u \in Users |->
                  IF u = "u1"
                  THEN [NewUser EXCEPT !.dailyCreditsResetAt = 1,
                                       !.subscriptionCredits = left,
                                       !.subscriptionCreditsResetAt = 1,
                                       !.subscriptionTier = tier,
                                       !.subscriptionExpiresAt = PeriodEnd,
                                       !.bonusCredits = b,
                                       !.ver = 1]
                  ELSE NewUser]

\* the wallet is read and spent from while the period runs out
NextExpiring ==
  \/ Tick
  \/ \E p \in Procs :
       \/ consumeCredits_Select(p)
       \/ consumeCredits_Update(p)
       \/ getUserCreditsBalance_Select(p)
       \/ getUserCreditsBalance_Update(p)
       \/ TxCommit(p)

SpecExpiring == InitExpiring /\ [][NextExpiring]_vars

----------------------------------------------------------------------------
(* The entitlements cache while subscriptions change *)

\* the subscription events handled in between
MaxChanges == 1

\* entitlements are asked for and invalidated as the webhook changes the
\* subscription of the user and time passes
NextEntitlements ==
  \/ ElapseCache
  \/ invalidateEntitlementsCache
  \/ \E e \in Procs :
       \/ getUserEntitlements(e)
       \/ getUserEntitlementsFresh(e)
       \/ getUserEntitlementsFresh_Balance(e)
  \/ \E p \in Procs :
       /\ nOps < MaxChanges
       /\ \/ handleSubscriptionUpdated(p)
          \/ handleSubscriptionDeleted(p)

SpecEntitlements == Init /\ [][NextEntitlements]_vars

----------------------------------------------------------------------------
(* The functions of the credits service on their own *)

NextService ==
  \/ Tick
  \/ \E p \in Procs :
       \/ consumeCredits_Select(p)
       \/ consumeCredits_Update(p)
       \/ getUserCreditsBalance_Select(p)
       \/ getUserCreditsBalance_Update(p)
       \/ grantDailyLoginReward_Select(p)
       \/ grantDailyLoginReward_Update(p)
       \/ checkCreditsReserve_Select(p)
       \/ checkCreditsReserve_Update(p)
       \/ addBonusCredits(p)
       \/ resetSubscriptionCredits(p)
       \/ TxCommit(p)
       \/ TxAbort(p)

\* the wallets as created, or u1 after its daily login reward of the first
\* instant
InitService ==
  /\ clock = 1
  /\ orders = << >>
  /\ referrals = << >>
  /\ lock = [u \in Users |-> Null]
  /\ proc = [p \in Procs |-> Idle]
  /\ nOps = 0
  /\ lastEvent = ""
  /\ LimiterStart
  /\ helperCall = NoCall
  /\ EntitlementsStart
  /\ \/ /\ users = [u \in Users |-> NewUser]
        /\ creditRecords = << >>
        /\ lastGrant = [u \in Users |-> Null]
     \/ /\ users = [u \in Users |->
                       IF u = "u1"
                       THEN [NewUser EXCEPT !.dailyCredits = DAILY_LOGIN_REWARD,
                                            !.dailyCreditsResetAt = 1, !.ver = 1]
                       ELSE NewUser]
        /\ creditRecords = << CreditRecord("u1", "daily_login", DAILY_LOGIN_REWARD, 0,
                                           DAILY_LOGIN_REWARD, "daily", 1, "") >>
        /\ lastGrant = [u \in Users |-> IF u = "u1" THEN 1 ELSE Null]

\* the calls of the service in any interleaving of their statements
SpecService == InitService /\ [][NextService]_vars

----------------------------------------------------------------------------
(* The credits service and the admin grant together *)

\* the calls that take a user id from their caller, for users with a wallet
\* and without, in any interleaving of their statements
NextWallet ==
  \/ Tick
  \/ \E p \in Procs :
       \/ consumeCredits_Select(p)
       \/ consumeCredits_Update(p)
       \/ getUserCreditsBalance_Select(p)
       \/ getUserCreditsBalance_Update(p)
       \/ grantDailyLoginReward_Select(p)
       \/ grantDailyLoginReward_Update(p)
       \/ checkCreditsReserve_Select(p)
       \/ checkCreditsReserve_Update(p)
       \/ grantCredits_Select(p)
       \/ grantCredits_Update(p)
       \/ TxCommit(p)
       \/ TxAbort(p)

SpecWallet == Init /\ [][NextWallet]_vars

----------------------------------------------------------------------------
(* applyReferralCode on its own *)

\* the (referred, referrer) pairs of the calls
ReferralPairsWide ==
  { << "u1", "u1" >>, << "u3", "u3" >>, << "u1", "u3" >>, << "u2", "u3" >>,
    << "u1", "u2" >>, << "u2", NoUser >> }

\* users whose rows are not followed: the parties of earlier referrals
OtherReferrer == "u0"
OtherUsers == << "x1", "x2", "x3", "x4", "x5", "x6", "x7", "x8", "x9", "x10",
                 "x11", "x12", "x13", "x14", "x15" >>

\* how many referrals were made earlier from ip1 on the first day, and how
\* many user u3 was rewarded for
PriorReferrals == { << 0, 0 >>, << 4, 0 >>, << 5, 0 >>, << 0, 9 >>, << 0, 10 >> }

\* n referral rows of the referrer from the address, the referred users
\* taken from OtherUsers after the first skip ones
PriorRows(referrer, ip, skip, n) ==
  [i \in 1..n |-> [ referrerId |-> referrer, referredId |-> OtherUsers[skip + i],
                    referrerCredits |-> REFERRER_REWARD,
                    referredCredits |-> REFERRED_REWARD,
                    ipAddress |-> ip, createdAt |-> 1 ]]

\* the two credit records each of the rows left, the referrer's bonus
\* starting at base
PriorRecords(rows, base) ==
  [j \in 1..(2 * Len(rows)) |->
     LET i == (j + 1) \div 2
     IN IF j % 2 = 1
        THEN CreditRecord(rows[i].referrerId, "referral_inviter", REFERRER_REWARD,
                          base + (i - 1) * REFERRER_REWARD, base + i * REFERRER_REWARD,
                          "bonus", 1, rows[i].referredId)
        ELSE CreditRecord(rows[i].referredId, "referral_invitee", REFERRED_REWARD,
                          0, REFERRED_REWARD, "bonus", 1, rows[i].referrerId)]

\* The tables after earlier referrals: some made from ip1 by a referrer
\* whose row is not followed, some rewarded to u3 from other addresses.
InitReferral ==
  /\ clock = 1
  /\ orders = << >>
  /\ lock = [u \in Users |-> Null]
  /\ proc = [p \in Procs |-> Idle]
  /\ nOps = 0
  /\ lastGrant = [u \in Users |-> Null]
  /\ lastEvent = ""
  /\ LimiterStart
  /\ helperCall = NoCall
  /\ EntitlementsStart
  /\ \E prior \in PriorReferrals :
       LET k == prior[1]
           n == prior[2]
           fromIp == PriorRows(OtherReferrer, "ip1", 0, k)
           ofReferrer == PriorRows("u3", "ip3", 5, Min(n, 5))
                           \o PriorRows("u3", "ip4", 10, n - Min(n, 5))
       IN /\ referrals = fromIp \o ofReferrer
          /\ creditRecords = PriorRecords(fromIp, 0) \o PriorRecords(ofReferrer, 0)
          /\ users = [u \in Users |->
               IF u = "u3"
               THEN [NewUser EXCEPT !.bonusCredits = n * REFERRER_REWARD,
                                    !.referralCreditsThisMonth = n * REFERRER_REWARD,
                                    !.totalReferralCredits = n * REFERRER_REWARD,
                                    !.totalReferrals = n,
                                    !.ver = n]
               ELSE NewUser]

applyReferralCode_CheckWide(p) ==
  applyReferralCode_Start(p, ReferralPairsWide, ClientIps)

NextReferral ==
  \/ Tick
  \/ \E p \in Procs :
       \/ applyReferralCode_CheckWide(p)
       \/ applyReferralCode_Insert(p)
       \/ applyReferralCode_Update(p)
       \/ TxCommit(p)

SpecReferral == InitReferral /\ [][NextReferral]_vars

----------------------------------------------------------------------------
(* grantCredits on its own *)

\* amounts around the two ends of the accepted range
GrantAmountsWide == {-5, 0, 1, 50, 100000, 100001}

grantCredits_SelectWide(p) == grantCredits_Start(p, GrantAmountsWide)

\* admin grants only, overlapping as the requests of two admins may
NextGrant ==
  \E p \in Procs :
    \/ grantCredits_SelectWide(p)
    \/ grantCredits_Update(p)
    \/ TxCommit(p)
    \/ TxAbort(p)

SpecGrant == InitConsume /\ [][NextGrant]_vars

----------------------------------------------------------------------------
(* The helper functions on their own *)

\* the tier column as it may be stored: unset, the four tiers, an unknown one
TierValues == {"", "free", "starter", "pro", "max", "enterprise"}
\* every instant of Calendar
Instants == 1..Len(Calendar)

\* new Date() is any instant of Calendar
InitHelpers ==
  /\ InitTables
  /\ users = [u \in Users |-> NewUser]
  /\ clock \in Instants

needsDailyReset_Call ==
  /\ \E lastResetAt \in {Null} \cup Instants :
       helperCall' = [ fn |-> "needsDailyReset", tier |-> "", at |-> lastResetAt,
                       now |-> clock, result |-> needsDailyReset(lastResetAt, clock) ]
  /\ UNCHANGED << ledgerVars, limiterVars, entitlementVars >>

getEffectiveTier_Call ==
  /\ \E tier \in TierValues, expiresAt \in {Null} \cup Instants :
       helperCall' = [ fn |-> "getEffectiveTier", tier |-> tier, at |-> expiresAt,
                       now |-> clock, result |-> getEffectiveTier(tier, expiresAt, clock) ]
  /\ UNCHANGED << ledgerVars, limiterVars, entitlementVars >>

getSubscriptionCreditsLimit_Call ==
  /\ \E tier \in TierValues, expiresAt \in {Null} \cup Instants :
       helperCall' = [ fn |-> "getSubscriptionCreditsLimit", tier |-> tier, at |-> expiresAt,
                       now |-> clock,
                       result |-> getSubscriptionCreditsLimit(tier, expiresAt, clock) ]
  /\ UNCHANGED << ledgerVars, limiterVars, entitlementVars >>

NextHelpers ==
  \/ needsDailyReset_Call
  \/ getEffectiveTier_Call
  \/ getSubscriptionCreditsLimit_Call

SpecHelpers == InitHelpers /\ [][NextHelpers]_vars

----------------------------------------------------------------------------
(* The rate limiter on its own *)

NextRateLimit ==
  \/ \E key \in RateLimitKeys : checkRateLimit(key)
  \/ cleanup
  \/ Elapse

SpecRateLimit == Init /\ [][NextRateLimit]_vars

----------------------------------------------------------------------------
(* Properties *)

\* what a request had available when it read the row at now
TotalAvailable(userData, now) ==
  EffectiveDaily(userData, now) + userData.subscriptionCredits + userData.bonusCredits

\* consumeCredits in slot p found the user and computed its deductions
ConsumeComputed(p) ==
  /\ proc[p].op = "consumeCredits"
  /\ proc[p].pc \in {"update", "commit", "done"}
  /\ proc[p].out.success

\* the request in slot p committed a write of row u
Wrote(p, u) == proc[p].pc = "done" /\ proc[p].out.success /\ u \in DOMAIN proc[p].wr

\* the writes of p and q are the only two of row u since p read it
OnlyWritersSince(p, q, u) ==
  /\ Wrote(p, u) /\ Wrote(q, u)
  /\ {proc[p].wr[u].ver, proc[q].wr[u].ver} = {proc[p].snap.ver + 1, proc[p].snap.ver + 2}
  /\ users[u].ver = proc[p].snap.ver + 2

PurchaseOrders(id) == {i \in DOMAIN orders : orders[i].stripeSessionId = id}

PurchaseRecords(id) ==
  {i \in DOMAIN creditRecords :
     creditRecords[i].type = "purchase" /\ creditRecords[i].ref = id}

DailyLoginRecords(u, day) ==
  {i \in DOMAIN creditRecords :
     /\ creditRecords[i].userId = u
     /\ creditRecords[i].type = "daily_login"
     /\ SameUTCDay(creditRecords[i].at, day)}

\* C1: in every reachable state the three pools of every user are >= 0, and
\* every consumeCredits call consumes at most what the user had available
\* (daily after reset + subscription + bonus) when the call read the row.
C1_PoolsNeverNegative ==
  /\ \A u \in Users :
       /\ users[u].dailyCredits >= 0
       /\ users[u].subscriptionCredits >= 0
       /\ users[u].bonusCredits >= 0
  /\ \A p \in Procs :
       ConsumeComputed(p) =>
         /\ proc[p].out.creditsConsumed >= 0
         /\ proc[p].out.creditsConsumed <= TotalAvailable(proc[p].snap, proc[p].at)

\* a consumption that took every credit of a funded wallet has committed
C1_Witness ==
  \E p \in Procs :
    /\ ConsumeComputed(p) /\ proc[p].pc = "done"
    /\ proc[p].out.creditsConsumed > 0
    /\ proc[p].amount > proc[p].out.creditsConsumed
    /\ TotalOf(users[proc[p].user]) = 0

\* C2: consumeCredits deducts daily first, then subscription, then bonus:
\* fromDaily = min(cost, daily), fromSubscription = min(cost - fromDaily,
\* subscription), fromBonus = min(cost - fromDaily - fromSubscription, bonus);
\* subscription is touched only when daily ends at 0, bonus only when daily
\* and subscription end at 0; 20/30/50 with cost 40 gives 0/10/50, 40 consumed.
C2_PriorityOrder ==
  \A p \in Procs :
    ConsumeComputed(p) =>
      LET daily == EffectiveDaily(proc[p].snap, proc[p].at)
          subscription == proc[p].snap.subscriptionCredits
          bonus == proc[p].snap.bonusCredits
          cost == proc[p].amount
          out == proc[p].out
          fromDaily == daily - out.dailyCredits
          fromSubscription == subscription - out.subscriptionCredits
          fromBonus == bonus - out.bonusCredits
      IN /\ fromDaily = Min(cost, daily)
         /\ fromSubscription = Min(cost - fromDaily, subscription)
         /\ fromBonus = Min(cost - fromDaily - fromSubscription, bonus)
         /\ fromSubscription > 0 => out.dailyCredits = 0
         /\ fromBonus > 0 => out.dailyCredits = 0 /\ out.subscriptionCredits = 0
         /\ (daily = 20 /\ subscription = 30 /\ bonus = 50 /\ cost = 40) =>
              /\ out.dailyCredits = 0 /\ out.subscriptionCredits = 10
              /\ out.bonusCredits = 50 /\ out.creditsConsumed = 40
         /\ (proc[p].pc = "done" /\ users[proc[p].user].ver = proc[p].snap.ver + 1) =>
              /\ users[proc[p].user].dailyCredits = out.dailyCredits
              /\ users[proc[p].user].subscriptionCredits = out.subscriptionCredits
              /\ users[proc[p].user].bonusCredits = out.bonusCredits

\* the call of the example has committed: 20/30/50 became 0/10/50
C2_Witness ==
  \E p \in Procs :
    /\ ConsumeComputed(p) /\ proc[p].pc = "done"
    /\ proc[p].snap.dailyCredits = 20 /\ proc[p].snap.subscriptionCredits = 30
    /\ proc[p].snap.bonusCredits = 50 /\ proc[p].amount = 40
    /\ users[proc[p].user].dailyCredits = 0
    /\ users[proc[p].user].subscriptionCredits = 10
    /\ users[proc[p].user].bonusCredits = 50

\* C3: for an existing user consumeCredits reports success with
\* creditsConsumed = min(cost, totalAvailable); when the cost exceeds what is
\* available the three pools end at 0 and the call still succeeds
\* (3/0/1 with cost 10 consumes 4).
C3_PartialIsSuccess ==
  \A p \in Procs :
    (proc[p].op = "consumeCredits" /\ proc[p].user \in Users /\ proc[p].pc # "idle") =>
      LET total == TotalAvailable(proc[p].snap, proc[p].at)
          cost == proc[p].amount
          out == proc[p].out
      IN /\ out.success
         /\ out.creditsConsumed = Min(cost, total)
         /\ cost > total =>
              /\ out.dailyCredits = 0 /\ out.subscriptionCredits = 0
              /\ out.bonusCredits = 0
         /\ (proc[p].snap.dailyCredits = 3 /\ proc[p].snap.subscriptionCredits = 0
               /\ proc[p].snap.bonusCredits = 1 /\ cost = 10) => out.creditsConsumed = 4

\* the call of the example has committed: 4 of the 10 credits were consumed
C3_Witness ==
  \E p \in Procs :
    /\ proc[p].op = "consumeCredits" /\ proc[p].pc = "done"
    /\ proc[p].snap.dailyCredits = 3 /\ proc[p].snap.subscriptionCredits = 0
    /\ proc[p].snap.bonusCredits = 1 /\ proc[p].amount = 10
    /\ proc[p].out.success /\ proc[p].out.creditsConsumed = 4
    /\ TotalOf(users[proc[p].user]) = 0

C5_OneOrderPerSession ==
  \A id \in CreditSessions :
    /\ Cardinality(PurchaseOrders(id)) <= 1
    /\ Cardinality(PurchaseRecords(id)) = Cardinality(PurchaseOrders(id))
    /\ \A p \in Procs :
         (proc[p].op = "handleCreditPurchase" /\ proc[p].pc = "done"
            /\ proc[p].session = id /\ proc[p].out.code \in {"", "DUPLICATE"}) =>
           /\ proc[p].out.success
           /\ Cardinality(PurchaseOrders(id)) = 1

\* C5 (steps): a delivery changes the user's bonusCredits only in the step
\* that commits the session's first order, and then by the purchased amount.
C5_OneIncrementPerOrder ==
  \A p \in Procs :
    (proc[p].op = "handleCreditPurchase" /\ proc'[p].op = "handleCreditPurchase"
       /\ proc[p].pc # "done" /\ proc'[p].pc = "done"
       /\ users'[proc[p].user] # users[proc[p].user]) =>
      /\ PurchaseOrders(proc[p].session) = {}
      /\ Cardinality(PurchaseOrders(proc[p].session)') = 1
      /\ users'[proc[p].user].bonusCredits
           = users[proc[p].user].bonusCredits + CheckoutSessions[proc[p].session].credits

\* C5: delivering the same checkout-completed event any number of times, one
\* after the other or at the same time, leaves exactly one order, one
\* increment of bonusCredits and one purchase record for the session, and
\* every duplicate delivery is acknowledged as a success.
C5_PurchaseIdempotent == []C5_OneOrderPerSession /\ [][C5_OneIncrementPerOrder]_vars

\* two deliveries of one session have returned, one of them as a duplicate
C5_Witness ==
  \E p \in Procs, q \in Procs :
    /\ p # q
    /\ proc[p].op = "handleCreditPurchase" /\ proc[q].op = "handleCreditPurchase"
    /\ proc[p].pc = "done" /\ proc[q].pc = "done"
    /\ proc[p].session = proc[q].session
    /\ proc[p].out.code = "" /\ proc[p].out.success
    /\ proc[q].out.code = "DUPLICATE"
    /\ users[proc[p].user].bonusCredits = CheckoutSessions[proc[p].session].credits

\* C6 (states): an order of a session exists exactly when its purchase
\* record exists.
C6_OrderIffRecord ==
  \A id \in CreditSessions : (PurchaseOrders(id) # {}) <=> (PurchaseRecords(id) # {})

\* C6 (steps): a step adds the order of a credit purchase exactly when it
\* adds the purchase record, and that step adds the credits to bonusCredits;
\* no step of a purchase changes the wallet without adding the order.
C6_OrderWithCredit ==
  LET newOrders == {i \in DOMAIN orders' :
                      i > Len(orders) /\ orders'[i].stripeSessionId \in CreditSessions}
      newRecords == {i \in DOMAIN creditRecords' :
                       i > Len(creditRecords) /\ creditRecords'[i].type = "purchase"}
  IN /\ (newOrders # {}) <=> (newRecords # {})
     /\ \A i \in newOrders :
          users'[orders'[i].userId].bonusCredits
            = users[orders'[i].userId].bonusCredits + orders'[i].credits
     /\ \A p \in Procs :
          (proc[p].op = "handleCreditPurchase" /\ proc[p].pc \in {"update", "commit"}
             /\ proc'[p] # proc[p]
             /\ users'[proc[p].user] # users[proc[p].user]) => newOrders # {}

\* C6: the order row and the balance change of a purchase are atomic
\* together, also after a failure between the order insert and the commit.
C6_PurchaseAtomic == []C6_OrderIffRecord /\ [][C6_OrderWithCredit]_vars

\* a purchase failed after its order insert: no order, no credit, no record
C6_Witness ==
  \E p \in Procs :
    /\ proc[p].op = "handleCreditPurchase" /\ proc[p].pc = "done"
    /\ proc[p].out.code = "TX_FAILED"
    /\ PurchaseOrders(proc[p].session) = {}
    /\ PurchaseRecords(proc[p].session) = {}
    /\ users[proc[p].user].bonusCredits = 0

\* C7: when two consumeCredits calls on one user overlap or follow each
\* other, and nothing else has written the row since the earlier of their
\* reads, the user's total decreases by exactly the sum of the two
\* creditsConsumed they report.
C7_NoLostConsumption ==
  \A p \in Procs, q \in Procs :
    LET u == proc[p].user
    IN (/\ p # q
        /\ proc[p].op = "consumeCredits" /\ proc[q].op = "consumeCredits"
        /\ proc[q].user = u /\ u \in Users
        /\ OnlyWritersSince(p, q, u)
        /\ proc[q].snap.ver >= proc[p].snap.ver
        /\ SameUTCDay(proc[p].at, proc[q].at)) =>
         TotalOf(users[u]) = TotalAvailable(proc[p].snap, proc[p].at)
                               - proc[p].out.creditsConsumed - proc[q].out.creditsConsumed

\* what the crediting request in slot q adds to the bonus pool of u
Credited(q, u) ==
  CASE proc[q].op = "handleCreditPurchase" /\ proc[q].user = u -> proc[q].amount
    [] proc[q].op = "grantCredits" /\ proc[q].user = u -> proc[q].amount
    [] proc[q].op = "applyReferralCode" /\ proc[q].user = u -> REFERRED_REWARD
    [] proc[q].op = "applyReferralCode" /\ proc[q].other = u -> REFERRER_REWARD
    [] OTHER -> 0

\* C8: when a consumeCredits call and a purchase, an admin grant or a
\* referral reward for the same user overlap, and nothing else writes the
\* row, bonusCredits ends at what the consumption read plus the credited
\* amount minus what the consumption took from bonus.
C8_CreditNeverOverwritten ==
  \A p \in Procs, q \in Procs :
    LET u == proc[p].user
    IN (/\ p # q
        /\ proc[p].op = "consumeCredits" /\ u \in Users
        /\ proc[q].op \in {"handleCreditPurchase", "grantCredits", "applyReferralCode"}
        /\ OnlyWritersSince(p, q, u)) =>
         users[u].bonusCredits
           = proc[p].snap.bonusCredits + Credited(q, u)
               - (proc[p].snap.bonusCredits - proc[p].out.bonusCredits)

\* C9 (states): a user has at most one daily_login record per UTC day.
C9_OneRecordPerDay ==
  \A u \in Users, day \in 1..MaxClock : Cardinality(DailyLoginRecords(u, day)) <= 1

\* C9 (steps): a grantDailyLoginReward call that starts on the UTC day of an
\* earlier call for the user that returned a balance ends at once: it writes
\* no row and no record and returns the pools as stored.
C9_LaterCallIsNoOp ==
  \A p \in Procs, u \in Users :
    (/\ nOps' = nOps + 1
     /\ proc'[p] # proc[p]
     /\ proc'[p].op = "grantDailyLoginReward" /\ proc'[p].user = u
     /\ lastGrant[u] # Null /\ SameUTCDay(lastGrant[u], clock)) =>
       /\ proc'[p].pc = "done"
       /\ proc'[p].out = Result(TRUE, "", 0, users[u].dailyCredits,
                                users[u].subscriptionCredits, users[u].bonusCredits)
       /\ users' = users
       /\ creditRecords' = creditRecords

C10_NoDoubleGrant ==
  \A p \in Procs, q \in Procs :
    LET u == proc[p].user
    IN (/\ p # q
        /\ proc[p].op = "grantDailyLoginReward" /\ proc[q].op = "grantDailyLoginReward"
        /\ proc[q].user = u /\ u \in Users
        /\ proc[p].pc = "done" /\ proc[q].pc = "done"
        /\ proc[p].out.success /\ proc[q].out.success
        /\ SameUTCDay(proc[p].at, proc[q].at)
        /\ needsDailyReset(proc[p].snap.dailyCreditsResetAt, proc[p].at)) =>
         /\ Cardinality(DailyLoginRecords(u, proc[p].at)) = 1
         /\ OnlyWritersSince(p, q, u) => users[u].dailyCredits = DAILY_LOGIN_REWARD

\* the step handles in slot p the subscription event that was handled last,
\* or a checkout session whose order is committed
Redelivers(p) ==
  /\ nOps' = nOps + 1
  /\ proc'[p] # proc[p]
  /\ \/ /\ proc'[p].op = "handleSubscriptionUpdated"
        /\ proc'[p].session = lastEvent
     \/ /\ proc'[p].op = "handleSubscriptionCheckoutCompleted"
        /\ OrderExists(proc'[p].session)

\* C11: handling a subscription created/updated/renewed event a second
\* time, with no other subscription event but any other requests handled in
\* between, changes neither the subscriptionCredits, the tier or the expiry
\* of any user nor the credit_records table.
C11_RedeliveryChangesNothing ==
  [][\A p \in Procs :
       Redelivers(p) =>
         /\ creditRecords' = creditRecords
         /\ \A u \in Users :
              /\ users'[u].subscriptionCredits = users[u].subscriptionCredits
              /\ users'[u].subscriptionTier = users[u].subscriptionTier
              /\ users'[u].subscriptionExpiresAt = users[u].subscriptionExpiresAt]_vars

\* the step handles in slot p a subscription event and commits new
\* subscription credits for user u
ResetsSubscriptionCredits(p, u) ==
  /\ proc'[p] # proc[p]
  /\ proc'[p].pc = "done" /\ proc'[p].out.success /\ proc'[p].out.code = ""
  /\ proc'[p].user = u
  /\ \/ /\ proc'[p].op = "handleSubscriptionUpdated"
        /\ SubscriptionEvents[proc'[p].session].status \in {"active", "trialing"}
     \/ /\ proc[p].op = "handleSubscriptionCheckoutCompleted"
        /\ proc[p].pc = "commit"

\* C12: the step in which a subscription created/updated/renewed event
\* commits the reset of a user's subscriptionCredits appends exactly one
\* credit record, a subscription_reset record of that user.
C12_ResetIsRecorded ==
  [][\A p \in Procs, u \in Users :
       ResetsSubscriptionCredits(p, u) =>
         /\ Len(creditRecords') = Len(creditRecords) + 1
         /\ creditRecords'[Len(creditRecords')].type = "subscription_reset"
         /\ creditRecords'[Len(creditRecords')].userId = u]_vars

\* the step starts applyReferralCode(referredUserId, referrerUserId) in slot p
StartsReferral(p, referredUserId, referrerUserId) ==
  /\ nOps' = nOps + 1
  /\ proc'[p] # proc[p]
  /\ proc'[p].op = "applyReferralCode"
  /\ proc'[p].user = referredUserId /\ proc'[p].other = referrerUserId

\* the call in slot p was refused with the code and nothing awaits a commit
RefusedWith(p, code) ==
  /\ proc'[p].pc = "done"
  /\ proc'[p].out = Result(FALSE, code, 0, 0, 0, 0)
  /\ proc'[p].wr = NoWrites /\ proc'[p].refs = << >> /\ proc'[p].recs = << >>

ReferralRows(referredUserId) ==
  {i \in DOMAIN referrals : referrals[i].referredId = referredUserId}

InviteeRecords(referredUserId) ==
  {i \in DOMAIN creditRecords :
     /\ creditRecords[i].userId = referredUserId
     /\ creditRecords[i].type = "referral_invitee"}

\* C13: applyReferralCode(a, a) is refused with SELF_REFERRAL for every
\* user a, whatever the tables hold, in the step that starts it, and leaves
\* the referrals, the user rows, their locks and the credit records as
\* they were.
C13_SelfReferralRefused ==
  [][\A p \in Procs, a \in UserIds :
       StartsReferral(p, a, a) =>
         /\ RefusedWith(p, "SELF_REFERRAL")
         /\ UNCHANGED << referrals, users, creditRecords, lock >>]_vars

\* a self-referral was refused while earlier referrals are in the table
C13_Witness ==
  \E p \in Procs :
    /\ proc[p].op = "applyReferralCode" /\ proc[p].pc = "done"
    /\ proc[p].user = proc[p].other /\ proc[p].user \in Users
    /\ proc[p].out.code = "SELF_REFERRAL"
    /\ referrals # << >>
    /\ users[proc[p].user].bonusCredits = 0

\* C14 (states): a referred user has at most one referral row and as many
\* referral_invitee records as rows.
C14_OneReferralPerUser ==
  \A referredUserId \in Users :
    /\ Cardinality(ReferralRows(referredUserId)) <= 1
    /\ Cardinality(InviteeRecords(referredUserId)) = Cardinality(ReferralRows(referredUserId))

\* C14 (steps): the step that rewards a referred user is the one that
\* commits the user's first referral row, it adds REFERRED_REWARD to the
\* user's bonusCredits, and a call for a user whose referral row is
\* committed is refused with ALREADY_APPLIED.
C14_RewardedOnce ==
  /\ \A referredUserId \in Users :
       (InviteeRecords(referredUserId)' # InviteeRecords(referredUserId)) =>
         /\ ReferralRows(referredUserId) = {}
         /\ Cardinality(ReferralRows(referredUserId)') = 1
         /\ users'[referredUserId].bonusCredits
              = users[referredUserId].bonusCredits + REFERRED_REWARD
  /\ \A p \in Procs, referredUserId \in Users, referrerUserId \in UserIds :
       (/\ StartsReferral(p, referredUserId, referrerUserId)
        /\ referredUserId # referrerUserId
        /\ ReferralRows(referredUserId) # {}) => RefusedWith(p, "ALREADY_APPLIED")

IpReferralsOn(ip, day) ==
  {i \in DOMAIN referrals :
     referrals[i].ipAddress = ip /\ SameUTCDay(referrals[i].createdAt, day)}

\* C15 (states): no address has more than MAX_REFERRALS_PER_IP_PER_DAY
\* referral rows created on one UTC day.
C15_AtMostFivePerDay ==
  \A ip \in ClientIps, day \in 1..MaxClock :
    Cardinality(IpReferralsOn(ip, day)) <= MAX_REFERRALS_PER_IP_PER_DAY

\* C15 (steps): a call that passes the earlier checks is refused with
\* IP_LIMIT exactly when its address has MAX_REFERRALS_PER_IP_PER_DAY rows
\* created on the current UTC day; rows of earlier days do not count.
C15_SixthIsRefused ==
  \A p \in Procs, referredUserId \in Users, referrerUserId \in Users :
    (/\ StartsReferral(p, referredUserId, referrerUserId)
     /\ referredUserId # referrerUserId
     /\ ReferralRows(referredUserId) = {}
     /\ users[referrerUserId].referralCreditsThisMonth < MONTHLY_LIMIT) =>
       (RefusedWith(p, "IP_LIMIT")
          <=> Cardinality(IpReferralsOn(proc'[p].ip, clock)) >= MAX_REFERRALS_PER_IP_PER_DAY)

\* C15: within one UTC day at most MAX_REFERRALS_PER_IP_PER_DAY referral
\* applications from one address succeed; with that many rows of the day the
\* next application fails with IP_LIMIT; rows of earlier days do not count.
C15_IpLimit == []C15_AtMostFivePerDay /\ [][C15_SixthIsRefused]_vars

\* C16 (states): no referrer's referralCreditsThisMonth exceeds MONTHLY_LIMIT.
C16_WithinMonthlyLimit ==
  \A u \in Users : users[u].referralCreditsThisMonth <= MONTHLY_LIMIT

\* C16 (steps): a call that passes the earlier checks and names a referrer
\* whose referralCreditsThisMonth has reached MONTHLY_LIMIT is refused with
\* MONTHLY_LIMIT.
C16_RefusedAtLimit ==
  \A p \in Procs, referredUserId \in Users, referrerUserId \in Users :
    (/\ StartsReferral(p, referredUserId, referrerUserId)
     /\ referredUserId # referrerUserId
     /\ ReferralRows(referredUserId) = {}
     /\ users[referrerUserId].referralCreditsThisMonth >= MONTHLY_LIMIT) =>
       RefusedWith(p, "MONTHLY_LIMIT")

\* C16: applyReferralCode refuses with MONTHLY_LIMIT once the referrer's
\* referralCreditsThisMonth has reached MONTHLY_LIMIT, so that after any
\* sequence or interleaving of calls the counter never exceeds MONTHLY_LIMIT.
C16_MonthlyLimit == []C16_WithinMonthlyLimit /\ [][C16_RefusedAtLimit]_vars

RefusalCodes ==
  {"SELF_REFERRAL", "ALREADY_APPLIED", "REFERRER_NOT_FOUND", "MONTHLY_LIMIT", "IP_LIMIT"}

\* C17: a step in which applyReferralCode is refused with SELF_REFERRAL,
\* ALREADY_APPLIED, MONTHLY_LIMIT, IP_LIMIT or REFERRER_NOT_FOUND leaves the
\* referrals, every user row (pools, monthly counter, lifetime totals) and
\* the credit records unchanged, and the call has nothing left to commit.
C17_RefusalHasNoEffect ==
  [][\A p \in Procs :
       (/\ proc'[p] # proc[p]
        /\ proc'[p].op = "applyReferralCode"
        /\ proc'[p].pc = "done"
        /\ proc'[p].out.code \in RefusalCodes) =>
          /\ RefusedWith(p, proc'[p].out.code)
          /\ UNCHANGED << referrals, users, creditRecords >>]_vars

\* a call was refused at the address limit and another at the monthly limit
\* or for an unknown referrer
C17_Witness ==
  \E p \in Procs :
    /\ proc[p].op = "applyReferralCode" /\ proc[p].pc = "done"
    /\ proc[p].out.code \in {"IP_LIMIT", "MONTHLY_LIMIT"}
    /\ proc[p].user \in Users
    /\ ReferralRows(proc[p].user) = {}
    /\ InviteeRecords(proc[p].user) = {}
    /\ users[proc[p].user].bonusCredits = 0

\* the step starts grantCredits in slot p
StartsGrantCredits(p) ==
  /\ nOps' = nOps + 1
  /\ proc'[p] # proc[p]
  /\ proc'[p].op = "grantCredits"

\* C18 (refusal): a grantCredits call with an amount below 1 or above
\* 100000, or for a user that does not exist, is refused in the step that
\* starts it: no user row and no credit record changes and nothing is left
\* to commit; every other call is accepted and goes on to its UPDATE.
C18_RefusedOrAccepted ==
  \A p \in Procs :
    StartsGrantCredits(p) =>
      IF proc'[p].amount >= 1 /\ proc'[p].amount <= 100000 /\ proc'[p].user \in Users
      THEN proc'[p].pc = "update"
      ELSE /\ proc'[p].pc = "done" /\ ~proc'[p].out.success
           /\ proc'[p].wr = NoWrites /\ proc'[p].recs = << >>
           /\ UNCHANGED << users, creditRecords >>

\* C18 (grant): the step that commits an accepted grant adds the amount to
\* the target's bonusCredits, leaves every other column of every user row
\* as it was and appends one record: admin_grant, pool bonus, the amount,
\* the admin's id and the reason.
C18_GrantAddsAmount ==
  \A p \in Procs :
    (/\ proc[p].op = "grantCredits" /\ proc[p].pc = "commit"
     /\ proc'[p].pc = "done" /\ proc'[p].out.success) =>
       LET u == proc[p].user
           last == creditRecords'[Len(creditRecords')]
       IN /\ users' = [users EXCEPT ![u].bonusCredits = @ + proc[p].amount,
                                    ![u].ver = @ + 1]
          /\ Len(creditRecords') = Len(creditRecords) + 1
          /\ SubSeq(creditRecords', 1, Len(creditRecords)) = creditRecords
          /\ last.userId = u /\ last.type = "admin_grant"
          /\ last.creditPool = "bonus" /\ last.amount = proc[p].amount
          /\ last.ref = proc[p].other /\ last.reason = proc[p].reason
          /\ last.ref \in AdminIds /\ last.reason \in GrantReasons

\* C18: grantCredits accepts exactly the amounts from 1 to 100000 for an
\* existing user; a refused call changes nothing; an accepted grant adds
\* exactly the amount to bonusCredits, leaves the daily and subscription
\* credits alone and appends exactly one admin_grant record carrying the
\* admin's id and the reason.
C18_GrantCredits == [][C18_RefusedOrAccepted /\ C18_GrantAddsAmount]_vars

\* the step is a checkRateLimit call for key
Checks(key) ==
  /\ nChecks' = nChecks + 1
  /\ lastCheck'.key = key

\* the calls for key allowed so far with a timestamp later than t
AllowedSince(key, t) ==
  { i \in DOMAIN allowed[key] : allowed[key][i] > t }

\* C19 (steps): a checkRateLimit call is rejected exactly when maxRequests
\* of the calls allowed before it for the same key have a timestamp later
\* than now - windowMs.
C19_RejectedExactlyWhenFull ==
  \A key \in RateLimitKeys :
    Checks(key) =>
      (lastCheck'.limited
         <=> Cardinality(AllowedSince(key, nowMs - RateLimitConfig(key).windowMs))
               >= RateLimitConfig(key).maxRequests)

\* C19 (states): of the calls allowed for a key, at most maxRequests have
\* their timestamp in any interval of length windowMs (the interval that
\* ends at an allowed call and excludes its start).
C19_WindowNeverExceeded ==
  \A key \in RateLimitKeys :
    \A i \in DOMAIN allowed[key] :
      Cardinality({ j \in AllowedSince(key, allowed[key][i] - RateLimitConfig(key).windowMs) :
                      allowed[key][j] <= allowed[key][i] })
        <= RateLimitConfig(key).maxRequests

\* C19: for a key and its config, with a clock that never goes back, a call
\* is rejected exactly when maxRequests earlier allowed calls have timestamps
\* later than now - windowMs, so the allowed calls within any interval of
\* length windowMs never exceed maxRequests.
C19_SlidingWindow == []C19_WindowNeverExceeded /\ [][C19_RejectedExactlyWhenFull]_vars

\* C20 (sweep): the cleanup timer deletes only keys that have no timestamp
\* inside the key's own window.
C20_SweepDropsOnlyExpired ==
  (lastSweep' # lastSweep) =>
    \A key \in DOMAIN store \ DOMAIN store' :
      \A i \in DOMAIN store[key] :
        ~(store[key][i] > nowMs - RateLimitConfig(key).windowMs)

\* C20 (result): every checkRateLimit call returns the limited and remaining
\* it returns in the run where the cleanup timer never fires.
C20_SameResultWithoutSweep ==
  /\ lastCheck.limited = lastCheck.unsweptLimited
  /\ lastCheck.remaining = lastCheck.unsweptRemaining

\* C20: the sweep drops only keys with no timestamp inside their window, so
\* for every key and config a sweep at any moment leaves the result (limited,
\* remaining) of every later checkRateLimit call as it is without the sweep.
C20_SweepChangesNoResult ==
  []C20_SameResultWithoutSweep /\ [][C20_SweepDropsOnlyExpired]_vars

\* the UTC calendar date of an instant
UTCDate(instant) ==
  << Calendar[instant].y, Calendar[instant].m, Calendar[instant].d >>

\* C22: needsDailyReset(lastResetAt) is true exactly when lastResetAt is null
\* or its UTC date (year, month, day) is not the UTC date of the current
\* time: true from 2025-01-31T23:59:59Z to 2025-02-01T00:00:00Z, false for
\* two instants of one UTC day.
C22_ResetExactlyOnOtherDate ==
  helperCall.fn = "needsDailyReset" =>
    /\ helperCall.result
         <=> (helperCall.at = Null \/ UTCDate(helperCall.at) # UTCDate(helperCall.now))
    /\ (helperCall.at # Null
        /\ Calendar[helperCall.at] = [y |-> 2025, m |-> 1, d |-> 31, s |-> 86399]
        /\ Calendar[helperCall.now] = [y |-> 2025, m |-> 2, d |-> 1, s |-> 0])
         => helperCall.result

\* needsDailyReset was asked at the first second of February about the last
\* second of January, and answered true
C22_Witness ==
  /\ helperCall.fn = "needsDailyReset"
  /\ helperCall.result
  /\ helperCall.at # Null
  /\ Calendar[helperCall.at] = [y |-> 2025, m |-> 1, d |-> 31, s |-> 86399]
  /\ Calendar[helperCall.now] = [y |-> 2025, m |-> 2, d |-> 1, s |-> 0]

\* the subscription ended before the call
ExpiredAtCall == helperCall.at # Null /\ helperCall.at < helperCall.now

\* the credits of a tier
TierCredits(tier) ==
  CASE tier = "starter" -> 1300
    [] tier = "pro" -> 2700
    [] tier = "max" -> 30000
    [] OTHER -> 0

\* C23: getSubscriptionCreditsLimit returns 0 whenever expiresAt is in the
\* past, for every tier, and otherwise the tier's constant (starter 1300,
\* pro 2700, max 30000, nothing for any other tier); getEffectiveTier
\* returns free when the tier is unset, free or unknown or expiresAt is in
\* the past, and the tier itself otherwise.
C23_LimitFromEffectiveTier ==
  /\ helperCall.fn = "getSubscriptionCreditsLimit" =>
       helperCall.result = IF ExpiredAtCall THEN 0 ELSE TierCredits(helperCall.tier)
  /\ helperCall.fn = "getEffectiveTier" =>
       helperCall.result =
         IF helperCall.tier \notin {"starter", "pro", "max"} \/ ExpiredAtCall
         THEN "free" ELSE helperCall.tier

\* the limit of an expired max subscription was asked for
C23_Witness ==
  /\ helperCall.fn = "getSubscriptionCreditsLimit"
  /\ helperCall.tier = "max"
  /\ ExpiredAtCall
  /\ helperCall.result = 0

\* the step commits the transaction of slot p (a rollback drops its writes)
Commits(p) ==
  /\ proc[p].pc = "commit"
  /\ proc'[p].pc = "done"
  /\ proc'[p].wr = proc[p].wr
  /\ creditRecords' = creditRecords \o proc[p].recs

\* C21: every CreditRecord appended carries in balanceBefore the user's
\* daily + subscription + bonus total just before the commit that appends it
\* (the daily credits as stored, or as they count at the handler's instant)
\* and in balanceAfter that total as the commit leaves it, whatever the
\* record's type.
C21_RecordsCarryTotals ==
  [][\A p \in Procs :
       Commits(p) =>
         \A i \in DOMAIN proc[p].recs :
           LET r == proc[p].recs[i]
               row == users[r.userId]
           IN /\ r.balanceBefore \in
                   { TotalOf(row),
                     EffectiveDaily(row, proc[p].at) + row.subscriptionCredits
                       + row.bonusCredits }
              /\ r.balanceAfter = TotalOf(users'[r.userId])]_vars

\* the functions that read the daily credits
DailyReaders == {"getUserCreditsBalance", "checkCreditsReserve", "consumeCredits"}

\* the step starts a call of op in slot p
Starts(p, op) ==
  /\ nOps' = nOps + 1
  /\ proc'[p] # proc[p]
  /\ proc'[p].op = op

\* the row's daily credits are those of an earlier UTC day than now
DailyExpired(row, now) ==
  row.dailyCreditsResetAt # Null /\ ~SameUTCDay(row.dailyCreditsResetAt, now)

\* C24 (read): a getBalance, checkReserve or consume that reads the row on a
\* UTC day other than the day of dailyCreditsResetAt works with dailyCredits
\* 0 and goes on to write the row.
C24_ExpiredDailyCountsAsZero ==
  \A p \in Procs : \A op \in DailyReaders :
    (Starts(p, op) /\ proc'[p].user \in Users
     /\ DailyExpired(users[proc'[p].user], clock)) =>
      /\ proc'[p].pc = "update"
      /\ proc'[p].out.dailyCredits = 0

\* C24 (write): the commit of such a call persists the daily credits it
\* worked with together with dailyCreditsResetAt = now, and for getBalance
\* and checkReserve leaves subscriptionCredits and bonusCredits as they were.
C24_ResetPersisted ==
  \A p \in Procs :
    (Commits(p) /\ proc[p].op \in DailyReaders
     /\ DailyExpired(proc[p].snap, proc[p].at)) =>
      LET u == proc[p].user
      IN /\ users'[u].dailyCredits = proc[p].out.dailyCredits
         /\ users'[u].dailyCreditsResetAt = proc[p].at
         /\ proc[p].op # "consumeCredits" =>
              /\ users'[u].subscriptionCredits = users[u].subscriptionCredits
              /\ users'[u].bonusCredits = users[u].bonusCredits

\* C24 (later days): a call that reports daily credits left to the user
\* found them granted on the UTC day of the call.
C24_NeverReportedLater ==
  \A p \in Procs :
    (proc[p].op \in DailyReaders /\ proc[p].user \in Users
     /\ proc[p].out.dailyCredits > 0) =>
      \E i \in DOMAIN creditRecords :
        /\ creditRecords[i].userId = proc[p].user
        /\ creditRecords[i].type = "daily_login"
        /\ SameUTCDay(creditRecords[i].at, proc[p].at)

\* C24: daily credits expire at the UTC day boundary without a scheduler:
\* getBalance, checkReserve and consume on a later UTC day count them as 0,
\* persist the zeroed (or post-consume) daily credits with
\* dailyCreditsResetAt = now in the same transaction, the reset leaves the
\* other two pools alone, and credits granted on one UTC day are never
\* reported or spent on a later day.
C24_DailyCreditsExpire ==
  /\ []C24_NeverReportedLater
  /\ [][C24_ExpiredDailyCountsAsZero /\ C24_ResetPersisted]_vars

\* C25 (result): checkCreditsReserve for an existing user allows the call
\* exactly when daily (after the reset) + subscription + bonus is at least
\* MIN_RESERVE_CREDITS and refuses it with INSUFFICIENT_CREDITS otherwise;
\* it writes only when the daily credits are due for their reset.
C25_AllowedFromReserve ==
  \A p \in Procs :
    (Starts(p, "checkCreditsReserve") /\ proc'[p].user \in Users) =>
      LET row == users[proc'[p].user]
          totalAvailable == EffectiveDaily(row, clock) + row.subscriptionCredits
                              + row.bonusCredits
      IN /\ proc'[p].out.success <=> totalAvailable >= MIN_RESERVE_CREDITS
         /\ ~proc'[p].out.success => proc'[p].out.code = "INSUFFICIENT_CREDITS"
         /\ proc'[p].recs = << >>
         /\ UNCHANGED << users, creditRecords >>
         /\ ~needsDailyReset(row.dailyCreditsResetAt, clock) =>
              proc'[p].pc = "done" /\ proc'[p].wr = NoWrites

\* C25 (frame): the commit of checkCreditsReserve appends no record, leaves
\* every other user's row alone and changes in the user's row only
\* dailyCredits and dailyCreditsResetAt, to 0 and now, as the daily reset does.
C25_OnlyTheDailyReset ==
  \A p \in Procs :
    (Commits(p) /\ proc[p].op = "checkCreditsReserve") =>
      /\ creditRecords' = creditRecords
      /\ needsDailyReset(proc[p].snap.dailyCreditsResetAt, proc[p].at)
      /\ users' = [users EXCEPT ![proc[p].user].dailyCredits = 0,
                               ![proc[p].user].dailyCreditsResetAt = proc[p].at,
                               ![proc[p].user].ver = @ + 1]

\* C25: checkReserve returns allowed = true exactly when the total available
\* is at least MIN_RESERVE_CREDITS and INSUFFICIENT_CREDITS otherwise, never
\* changes subscriptionCredits or bonusCredits, never appends a CreditRecord
\* and changes the daily credits only through the daily reset.
C25_CheckReserve == [][C25_AllowedFromReserve /\ C25_OnlyTheDailyReset]_vars

\* a call was allowed with exactly the minimum reserve and its reset committed
C25_Witness ==
  \E p \in Procs :
    /\ proc[p].op = "checkCreditsReserve" /\ proc[p].pc = "done"
    /\ proc[p].out.success
    /\ proc[p].out.dailyCredits + proc[p].out.subscriptionCredits
         + proc[p].out.bonusCredits = MIN_RESERVE_CREDITS
    /\ proc[p].user \in Users
    /\ users[proc[p].user].dailyCreditsResetAt = proc[p].at
    /\ users[proc[p].user].bonusCredits = MIN_RESERVE_CREDITS

\* C26: the commit of a consumeCredits call appends exactly one record, of
\* type generation, pool mixed and amount = -actualConsumed, when
\* actualConsumed > 0, and none when actualConsumed = 0; no other step of the
\* call appends a record.
C26_OneGenerationRecord ==
  [][\A p \in Procs :
       (proc[p].op = "consumeCredits" /\ proc'[p] # proc[p]
        /\ proc'[p].op = "consumeCredits" /\ proc'[p].pc # "update") =>
         IF Commits(p) /\ proc[p].out.creditsConsumed > 0
         THEN /\ Len(creditRecords') = Len(creditRecords) + 1
              /\ SubSeq(creditRecords', 1, Len(creditRecords)) = creditRecords
              /\ LET last == creditRecords'[Len(creditRecords')]
                 IN /\ last.userId = proc[p].user
                    /\ last.type = "generation"
                    /\ last.creditPool = "mixed"
                    /\ last.amount = -proc[p].out.creditsConsumed
         ELSE creditRecords' = creditRecords]_vars

\* a call that consumed credits has committed and one that consumed none
\* left no record
C26_Witness ==
  \E p \in Procs :
    /\ proc[p].op = "consumeCredits" /\ proc[p].pc = "done"
    /\ proc[p].out.success /\ proc[p].out.creditsConsumed = 0
    /\ proc[p].amount > 0
    /\ Cardinality({ i \in DOMAIN creditRecords :
                       creditRecords[i].type = "generation" }) = 1

\* C27: resetSubscriptionCredits(userId, tier, expiresAt) on an existing
\* user leaves subscriptionCredits at the limit of the tier whatever it was
\* before, subscriptionCreditsResetAt stamped, subscriptionTier = tier and
\* subscriptionExpiresAt = expiresAt.
C27_ResetSetsPoolTierAndExpiry ==
  [][\A p \in Procs :
       (Starts(p, "resetSubscriptionCredits") /\ proc'[p].user \in Users) =>
         LET after == users'[proc'[p].user]
         IN /\ after.subscriptionCredits =
                 getSubscriptionCreditsLimit(proc'[p].tier, proc'[p].expiresAt, clock)
            /\ after.subscriptionCreditsResetAt = clock
            /\ after.subscriptionTier = proc'[p].tier
            /\ after.subscriptionExpiresAt = proc'[p].expiresAt]_vars

\* C28: a subscription deleted event for a known customer sets
\* subscriptionTier to free and subscriptionCredits to 0 and clears
\* subscriptionExpiresAt and subscriptionCreditsResetAt; it leaves the daily
\* and bonus credits (and every other column and row) as they were and
\* appends no CreditRecord.
C28_DeletedDowngrades ==
  [][\A p \in Procs :
       (Starts(p, "handleSubscriptionDeleted") /\ proc'[p].user \in Users) =>
         /\ users' = [users EXCEPT ![proc'[p].user] =
                        [@ EXCEPT !.subscriptionTier = "free",
                                  !.subscriptionCredits = 0,
                                  !.subscriptionExpiresAt = Null,
                                  !.subscriptionCreditsResetAt = Null,
                                  !.ver = @ + 1]]
         /\ creditRecords' = creditRecords
         /\ proc'[p].recs = << >>
         /\ proc'[p].pc = "done"]_vars

\* the subscription of a user who bought one at checkout and holds bonus
\* credits was deleted
C28_Witness ==
  /\ lastEvent = "deleted"
  /\ users["u1"].subscriptionTier = "free"
  /\ users["u1"].subscriptionCredits = 0
  /\ users["u1"].bonusCredits > 0
  /\ \E i \in DOMAIN creditRecords :
       creditRecords[i].userId = "u1" /\ creditRecords[i].type = "subscription_reset"

\* C29: in every state a user's stored subscriptionCredits does not exceed
\* the credits of the stored subscriptionTier (0 for free, 1300 for starter,
\* 2700 for pro, 30000 for max).
C29_PoolWithinTierLimit ==
  \A u \in Users : users[u].subscriptionCredits <= TierCredits(users[u].subscriptionTier)

\* C30: bonusCredits never goes down except by consumption: a step that
\* lowers a user's bonusCredits is the commit of a consumeCredits call for
\* that user.
C30_BonusLoweredOnlyByConsume ==
  [][\A u \in Users :
       users'[u].bonusCredits < users[u].bonusCredits =>
         \E p \in Procs :
           Commits(p) /\ proc[p].op = "consumeCredits" /\ proc[p].user = u]_vars

\* the referrerCredits of the first n referral rows that name the referrer
RECURSIVE ReferrerCreditsUpTo(_, _)
ReferrerCreditsUpTo(referrerUserId, n) ==
  IF n = 0 THEN 0
  ELSE ReferrerCreditsUpTo(referrerUserId, n - 1)
         + (IF referrals[n].referrerId = referrerUserId
            THEN referrals[n].referrerCredits ELSE 0)

\* C31 (steps): the step that commits an applyReferralCode call appends one
\* referral row of the two parties, adds REFERRER_REWARD to the referrer's
\* bonusCredits, referralCreditsThisMonth and totalReferralCredits and 1 to
\* totalReferrals, adds REFERRED_REWARD to the referred user's bonusCredits,
\* changes no other column or row, and appends a referral_inviter record of
\* the referrer and a referral_invitee record of the referred user, both of
\* pool bonus and each naming the other party; the call returns success.
C31_SuccessfulReferralWrites ==
  \A p \in Procs :
    (Commits(p) /\ proc[p].op = "applyReferralCode") =>
      LET referredUserId == proc[p].user
          referrerUserId == proc[p].other
          n == Len(creditRecords)
      IN /\ proc'[p].out.success
         /\ Len(referrals') = Len(referrals) + 1
         /\ referrals'[Len(referrals')].referredId = referredUserId
         /\ referrals'[Len(referrals')].referrerId = referrerUserId
         /\ referrals'[Len(referrals')].referrerCredits = REFERRER_REWARD
         /\ referrals'[Len(referrals')].referredCredits = REFERRED_REWARD
         /\ users' = [users EXCEPT
               ![referrerUserId] =
                  [@ EXCEPT !.bonusCredits = @ + REFERRER_REWARD,
                            !.referralCreditsThisMonth = @ + REFERRER_REWARD,
                            !.totalReferralCredits = @ + REFERRER_REWARD,
                            !.totalReferrals = @ + 1,
                            !.ver = @ + 1],
               ![referredUserId] =
                  [@ EXCEPT !.bonusCredits = @ + REFERRED_REWARD,
                            !.ver = @ + 1]]
         /\ Len(creditRecords') = n + 2
         /\ creditRecords'[n + 1].userId = referrerUserId
         /\ creditRecords'[n + 1].type = "referral_inviter"
         /\ creditRecords'[n + 1].amount = REFERRER_REWARD
         /\ creditRecords'[n + 1].creditPool = "bonus"
         /\ creditRecords'[n + 1].ref = referredUserId
         /\ creditRecords'[n + 2].userId = referredUserId
         /\ creditRecords'[n + 2].type = "referral_invitee"
         /\ creditRecords'[n + 2].amount = REFERRED_REWARD
         /\ creditRecords'[n + 2].creditPool = "bonus"
         /\ creditRecords'[n + 2].ref = referrerUserId

\* C31 (steps): a referral row, a referral record or a change of a referral
\* counter comes only from the commit of an applyReferralCode call.
C31_OnlyReferralWrites ==
  (\/ referrals' # referrals
   \/ \E u \in Users :
        \/ users'[u].totalReferralCredits # users[u].totalReferralCredits
        \/ users'[u].referralCreditsThisMonth # users[u].referralCreditsThisMonth
        \/ users'[u].totalReferrals # users[u].totalReferrals)
    => \E p \in Procs : Commits(p) /\ proc[p].op = "applyReferralCode"

\* C31 (states): a referrer's totalReferralCredits is the sum of
\* referrerCredits over the referral rows that name the referrer.
C31_LifetimeTotalIsSum ==
  \A u \in Users :
    users[u].totalReferralCredits = ReferrerCreditsUpTo(u, Len(referrals))

\* C31: a successful applyReferralCode inserts one referral row, rewards the
\* referrer (bonusCredits, referralCreditsThisMonth, totalReferralCredits by
\* REFERRER_REWARD, totalReferrals by 1) and the referred user (bonusCredits
\* by REFERRED_REWARD) and appends the two bonus-pool records naming the
\* other party; so totalReferralCredits always equals the sum of
\* referrerCredits over the referrer's referral rows.
C31_ReferralReward ==
  /\ [][C31_SuccessfulReferralWrites /\ C31_OnlyReferralWrites]_vars
  /\ []C31_LifetimeTotalIsSum

\* a referrer rewarded for earlier referrals was rewarded for one more: the
\* call returned success, its row and its two records are committed
C31_Witness ==
  \E p \in Procs :
    /\ proc[p].op = "applyReferralCode" /\ proc[p].pc = "done"
    /\ proc[p].out.success
    /\ proc[p].other = "u3"
    /\ users["u3"].totalReferralCredits = 10 * REFERRER_REWARD
    /\ users["u3"].totalReferrals = 10
    /\ users[proc[p].user].bonusCredits = REFERRED_REWARD
    /\ \E i \in DOMAIN referrals :
         referrals[i].referredId = proc[p].user /\ referrals[i].referrerId = "u3"
    /\ creditRecords[Len(creditRecords)].type = "referral_invitee"
    /\ creditRecords[Len(creditRecords)].userId = proc[p].user

\* C32 (steps): a rejected checkRateLimit call adds no timestamp to the
\* entry of its key and none to the calls allowed, and reports as resetMs
\* the oldest timestamp left in the entry + windowMs - now, which is positive.
C32_RejectionRecordsNothing ==
  \A key \in RateLimitKeys :
    (Checks(key) /\ lastCheck'.limited) =>
      LET config == RateLimitConfig(key)
          kept == SelectSeq(Timestamps(store, key), LAMBDA ts : ts > nowMs - config.windowMs)
      IN /\ allowed' = allowed
         /\ Timestamps(store', key) = kept
         /\ \A k \in DOMAIN store' \ {key} : k \in DOMAIN store /\ store'[k] = store[k]
         /\ kept # << >>
         /\ \A i \in DOMAIN kept : kept[1] <= kept[i]
         /\ lastCheck'.resetMs = kept[1] + config.windowMs - nowMs
         /\ lastCheck'.resetMs > 0

\* C32 (steps): a call for a key made resetMs after the last rejected call
\* for the key, no call for the key allowed in between, is allowed.
C32_AllowedAtReset ==
  \A key \in RateLimitKeys :
    (/\ Checks(key)
     /\ lastRejected[key].at >= 0
     /\ nowMs = lastRejected[key].at + lastRejected[key].resetMs
     /\ AllowedSince(key, lastRejected[key].at) = {}) => ~lastCheck'.limited

\* C32: a call checkRateLimit rejects at t records nothing and reports
\* resetMs = oldest timestamp in the window + windowMs - t > 0; a call for
\* the same key and config at t + resetMs, none allowed in between, is allowed.
C32_ResetMs == [][C32_RejectionRecordsNothing /\ C32_AllowedAtReset]_vars

\* the sixth checkout call of an hour was rejected and the call made
\* resetMs later, the first one allowed since, has been allowed
C32_Witness ==
  LET key == "checkout:u1"
      rejected == lastRejected[key]
  IN /\ rejected.at >= 0 /\ rejected.resetMs > CLEANUP_INTERVAL_MS
     /\ lastCheck.key = key /\ ~lastCheck.limited
     /\ lastCheck.at = rejected.at + rejected.resetMs
     /\ Cardinality(AllowedSince(key, rejected.at)) = 1
     /\ Len(allowed[key]) = CHECKOUT_LIMIT.maxRequests + 1

\* the functions that look the wallet of a given user id up
WalletCalls ==
  { "consumeCredits", "checkCreditsReserve", "getUserCreditsBalance",
    "grantDailyLoginReward", "grantCredits" }

\* C33: a call of consumeCredits, checkCreditsReserve, getUserCreditsBalance,
\* grantDailyLoginReward or grantCredits for a user id with no wallet
\* returns in the step that looks the row up, with nothing awaiting a commit:
\* consume and checkReserve with code USER_NOT_FOUND, getBalance and
\* grantDailyLoginReward with no balance, grantCredits with a failure; the
\* user rows, their locks and the credit records stay as they were.
C33_NoWalletNoWrite ==
  [][\A p \in Procs : \A op \in WalletCalls :
       (Starts(p, op) /\ proc'[p].user \notin Users) =>
         /\ proc'[p].pc = "done"
         /\ ~proc'[p].out.success
         /\ op \in {"consumeCredits", "checkCreditsReserve"} =>
              proc'[p].out.code = "USER_NOT_FOUND"
         /\ op \in {"getUserCreditsBalance", "grantDailyLoginReward"} =>
              proc'[p].out = NoResult
         /\ proc'[p].wr = NoWrites /\ proc'[p].recs = << >>
         /\ UNCHANGED << users, creditRecords, lock, lastGrant >>]_vars

\* grantCredits and consumeCredits have been called for the user id without
\* a wallet and have returned, a call for u1 having written its row and a
\* record
C33_Witness ==
  /\ \E p \in Procs :
       /\ proc[p].pc = "done" /\ proc[p].user = NoUser
       /\ proc[p].op = "grantCredits" /\ proc[p].out.code = "USER_NOT_FOUND"
  /\ \E q \in Procs :
       /\ proc[q].pc = "done" /\ proc[q].user = NoUser
       /\ proc[q].op = "consumeCredits" /\ proc[q].out.code = "USER_NOT_FOUND"
  /\ users["u1"].ver > 0
  /\ creditRecords # << >>

\* a customer.subscription.deleted event was applied to the user's row and
\* the row is as that handler leaves it
DeletedApplied(u) ==
  /\ \E q \in Procs :
       /\ proc[q].op = "handleSubscriptionDeleted" /\ proc[q].pc = "done"
       /\ proc[q].user = u
  /\ users[u].subscriptionTier = "free"
  /\ users[u].subscriptionCredits = 0
  /\ users[u].subscriptionExpiresAt = Null

\* C34: once the deleted event of a customer's subscription has been
\* applied, the delivery of a created/updated event of that subscription
\* (an older one: deleted is a subscription's last event) leaves the user on
\* tier free with subscriptionCredits 0.
C34_DeletedStaysDeleted ==
  [][\A p \in Procs, u \in Users :
       (/\ DeletedApplied(u)
        /\ Starts(p, "handleSubscriptionUpdated")
        /\ proc'[p].user = u) =>
         /\ users'[u].subscriptionTier = "free"
         /\ users'[u].subscriptionCredits = 0]_vars

\* C35 (read): whatever cost consumeCredits is called with, the three pools
\* it computes are each at most the pool's value as the call read it (the
\* daily credits as they count at that instant) and creditsConsumed is >= 0.
C35_ComputedNotAbove ==
  \A p \in Procs :
    (Starts(p, "consumeCredits") /\ proc'[p].user \in Users) =>
      LET userData == users[proc'[p].user]
          out == proc'[p].out
      IN /\ out.dailyCredits <= EffectiveDaily(userData, clock)
         /\ out.subscriptionCredits <= userData.subscriptionCredits
         /\ out.bonusCredits <= userData.bonusCredits
         /\ out.creditsConsumed >= 0

\* C35 (write): the commit of the call leaves each pool at most the value
\* the call read.
C35_WrittenNotAbove ==
  \A p \in Procs :
    (Commits(p) /\ proc[p].op = "consumeCredits") =>
      LET u == proc[p].user
          userData == proc[p].snap
      IN /\ users'[u].dailyCredits <= EffectiveDaily(userData, proc[p].at)
         /\ users'[u].subscriptionCredits <= userData.subscriptionCredits
         /\ users'[u].bonusCredits <= userData.bonusCredits

\* C35: consumeCredits never increases a pool: for every cost, 0 and
\* negative numbers included, each of dailyCredits, subscriptionCredits and
\* bonusCredits after the call is <= its effective value before the call and
\* the creditsConsumed reported is >= 0.
C35_ConsumeNeverIncreases == [][C35_ComputedNotAbove /\ C35_WrittenNotAbove]_vars

\* C36: a grantDailyLoginReward call for an existing user that has returned
\* a balance leaves the user with the reward of its UTC day granted: one
\* daily_login record of the user for that day, whichever of
\* getUserCreditsBalance, checkCreditsReserve and consumeCredits ran for the
\* user earlier that day.
C36_RewardNeverForfeited ==
  \A p \in Procs :
    (/\ proc[p].op = "grantDailyLoginReward" /\ proc[p].pc = "done"
     /\ proc[p].user \in Users
     /\ proc[p].out.success) =>
      Cardinality(DailyLoginRecords(proc[p].user, proc[p].at)) = 1

\* the two instants fall in the same UTC calendar month
SameUTCMonth(a, b) ==
  Calendar[a].y = Calendar[b].y /\ Calendar[a].m = Calendar[b].m

\* the referrerCredits of those of the first n referral rows that name the
\* referrer and were created in the UTC month of now
RECURSIVE EarnedInMonthUpTo(_, _, _)
EarnedInMonthUpTo(referrerUserId, now, n) ==
  IF n = 0 THEN 0
  ELSE EarnedInMonthUpTo(referrerUserId, now, n - 1)
         + (IF /\ referrals[n].referrerId = referrerUserId
               /\ SameUTCMonth(referrals[n].createdAt, now)
            THEN referrals[n].referrerCredits ELSE 0)

EarnedInMonth(referrerUserId, now) ==
  EarnedInMonthUpTo(referrerUserId, now, Len(referrals))

\* C37 (states): referralCreditsThisMonth is what the user's referrals of
\* the current calendar month earned.
C37_CounterIsThisMonth ==
  \A u \in Users : users[u].referralCreditsThisMonth = EarnedInMonth(u, clock)

\* C37 (steps): a call naming a referrer whose referrals of the current
\* calendar month earned less than MONTHLY_LIMIT is not refused with
\* MONTHLY_LIMIT.
C37_EarnsAgainNextMonth ==
  \A p \in Procs, referredUserId \in Users, referrerUserId \in Users :
    (/\ StartsReferral(p, referredUserId, referrerUserId)
     /\ EarnedInMonth(referrerUserId, clock) < MONTHLY_LIMIT) =>
      proc'[p].out.code # "MONTHLY_LIMIT"

\* C37: the monthly referral cap is per calendar month:
\* referralCreditsThisMonth counts the rewards earned in the current month
\* only, so a referrer refused with MONTHLY_LIMIT in one month earns a
\* referral reward again once a later month has begun.
C37_MonthlyCapPerMonth ==
  []C37_CounterIsThisMonth /\ [][C37_EarnsAgainNextMonth]_vars

\* the subscription of the row has expired at now
SubscriptionExpired(userData, now) ==
  userData.subscriptionExpiresAt # Null /\ userData.subscriptionExpiresAt < now

\* C38 (steps): a consumeCredits call that reads a row whose
\* subscriptionExpiresAt is in the past is reported a limit of 0 and takes
\* nothing from subscriptionCredits.
C38_NothingFromExpiredPool ==
  \A p \in Procs :
    (/\ Starts(p, "consumeCredits") /\ proc'[p].user \in Users
     /\ SubscriptionExpired(users[proc'[p].user], clock)) =>
      /\ subscriptionLimit(users[proc'[p].user], clock) = 0
      /\ proc'[p].out.subscriptionCredits = users[proc'[p].user].subscriptionCredits

\* C38 (states): a balance returned for a row whose subscriptionExpiresAt
\* was in the past has subscriptionCredits <= the subscriptionCreditsLimit
\* returned with it.
C38_BalanceWithinLimit ==
  \A p \in Procs :
    (/\ proc[p].op \in {"consumeCredits", "getUserCreditsBalance"}
     /\ proc[p].pc = "done" /\ proc[p].out.success
     /\ proc[p].user \in Users
     /\ SubscriptionExpired(proc[p].snap, proc[p].at)) =>
      proc[p].out.subscriptionCredits <= subscriptionLimit(proc[p].snap, proc[p].at)

\* C38: credits left in the subscription pool of an expired subscription
\* are not spendable: when subscriptionExpiresAt is in the past (effective
\* tier free, limit 0 reported) consumeCredits deducts nothing from
\* subscriptionCredits and every balance returned has subscriptionCredits <=
\* subscriptionCreditsLimit.
C38_ExpiredPoolNotSpendable ==
  [][C38_NothingFromExpiredPool]_vars /\ []C38_BalanceWithinLimit

\* C39: the balanceAfter a successful grantCredits returns (carried in the
\* bonusCredits field of the slot's result) equals the balanceAfter of the
\* admin_grant record its commit appends, which is the target's daily +
\* subscription + bonus total after the grant.
C39_ReturnedBalanceIsTotal ==
  [][\A p \in Procs :
       (Commits(p) /\ proc[p].op = "grantCredits") =>
         LET last == creditRecords'[Len(creditRecords')]
         IN /\ last.type = "admin_grant" /\ last.userId = proc[p].user
            /\ proc'[p].out.success
            /\ proc'[p].out.bonusCredits = last.balanceAfter
            /\ proc'[p].out.bonusCredits = TotalOf(users'[proc[p].user])]_vars

\* the step is a getUserEntitlements call in slot e answered from the cache
ServedFromCache(e) ==
  /\ nCalls' = nCalls + 1
  /\ ent'[e] # ent[e]
  /\ ent'[e].fn = "getUserEntitlements" /\ ent'[e].hit

\* C40 (invalidation): the entitlements a getUserEntitlements call takes
\* from the cache were computed from a read of the user row that started
\* after every invalidateEntitlementsCache call for the user that had
\* returned when the call was made.
C40_NoEntryFromBeforeInvalidation ==
  \A e \in Procs :
    ServedFromCache(e) =>
      ent'[e].result.inv = invalidations[ent'[e].user]

\* C40 (expiry): an entry is served less than CACHE_TTL_MS after it was
\* put in the cache.
C40_NotServedAfterExpiry ==
  \A e \in Procs :
    ServedFromCache(e) =>
      /\ nowMs < cache[ent'[e].user].expiresAt
      /\ nowMs < cache[ent'[e].user].cachedAt + CACHE_TTL_MS

\* C40: once invalidateEntitlementsCache(userId) has returned, no later
\* getUserEntitlements(userId) call returns entitlements computed from a
\* wallet read that started before the invalidation, a
\* getUserEntitlementsFresh call in flight at the time or not; and no entry
\* is served at or after its 5-minute expiry.
C40_InvalidationIsEffective ==
  [][C40_NoEntryFromBeforeInvalidation /\ C40_NotServedAfterExpiry]_vars

====
